---- MODULE Spec2Model ----
(***************************************************************************)
(* A model of nokufind: the Finder aggregator (Finder.py), the Post record *)
(* with its fetch engine (Post.py) and the md5 deduplication filter.       *)
(*                                                                         *)
(* The module holds several specifications over one set of variables; each *)
(* specification moves one group of variables and leaves the others at     *)
(* their initial value:                                                    *)
(*   SpecAgg     the adapter registry and the fan-out queries              *)
(*   SpecFetch   Finder.fetch_data / cancel_fetch and Post.fetch_data      *)
(*   SpecFilter  Finder.filter_by_md5                                      *)
(*   SpecPost    Post construction, rating derivation, export and import   *)
(***************************************************************************)
EXTENDS Integers, Sequences, FiniteSets, TLC

VARIABLES
    \* ---- aggregator (Finder.__clients, the "aliases" setting, one API call)
    clients,      \* Finder.__clients: sequence of [name, inst], dict insertion order
    aliases,      \* configuration "aliases": name -> alias table, or Absent
    callPc,       \* "idle" | "loop" | "pending" | "done"
    callOp,       \* the API operation of the current / last call
    callClient,   \* the client= argument (None: unscoped)
    callTags,     \* the tags argument (search_posts) or <<post_id>> (get_post)
    callIdx,      \* position of the iteration over __clients
    callAcc,      \* all_posts
    callLog,      \* the adapter queries made by the call, in order
    callRet,      \* what the call returned, or Raise(e)
    postChildren, \* Post.__children of the post passed to post_get_children
    \* ---- deduplication filter (one call of Finder.filter_by_md5)
    filterPc,     \* "idle" | "done"
    filterIn,     \* the posts argument: the md5 property of each post
    filterGen,    \* the generate_md5 argument
    filterRet,    \* the indices of the posts returned, or the error raised
    \* ---- one Post, its export and its re-import
    postPc,       \* "none" | "built" | "raised": Post(...) was called
    postArgs,     \* the arguments Post.__init__ was called with
    post,         \* the Post p: __post_data, and whether its md5 thread still runs
    exportPc,     \* "none" | "done": p.export_post wrote the JSON file
    exported,     \* the JSON data of the file
    importPc,     \* "none" | "done": Post.import_post was called
    imported,     \* what import_post gave: a Post, None, or an exception
    \* ---- bulk fetch (Finder.fetch_data / cancel_fetch over Post.fetch_data)
    fetchPc,        \* caller of Finder.fetch_data: "idle" | "waiting" | "returned"
    fetchArgs,      \* [only |-> only_main_image, block |-> should_block]
    finderExecutor, \* Finder.__inner_executor is not None
    finderPool,     \* the executor fetch_data created: "absent" | "live" | "shutdown"
    tempPosts,      \* Finder.__temp_posts is not None
    recTask,        \* per post: where its _fetch_data_post task is
    postExecutor,   \* per post: Post.__inner_executor is not None
    postPool,       \* per post: the executor Post.fetch_data created
    shouldCancel,   \* per post: Post.__should_cancel
    fetchedData,    \* per post: Post.__fetched_data
    dataOf,         \* per post: Post.__data (0: None, i: the content of image i)
    refTask,        \* per post and image: where its _request_data task is
    cancelPc,       \* a Finder.cancel_fetch call: "idle" | "posts" | "del"
    cancelIdx,      \* its position in `for post in self.__temp_posts`
    cancelCount,    \* Finder.cancel_fetch calls that returned
    cancelDone,     \* a cancel_fetch that shut the fetch down has returned
    cancelErr,      \* a cancel_fetch call raised
    \* ---- configuration (the SubfinderConfiguration of the Finder and of adapters)
    cfg,            \* per owner: the __config dict (headers, cookies, settings)
    cfgCalls,       \* per owner: how often its change callback was invoked
    cfgLast,        \* the last configuration call: owner, op, key, value, result
    \* ---- download to disk (one call of Finder.download_fast_async)
    dlPc,           \* "idle" | "running" | "done"
    dlIn,           \* the post_list argument: is it a list, the images of each post
    dlTask,         \* per post: its _download_and_safe task
    dlEnd,          \* end_paths of download_fast_async
    dlRet,          \* what the call returned, or Raise(e)
    \* ---- adapter search (search_posts of DanbooruFinder, PixivFinder, Rule34Finder)
    srPc,           \* "idle" | "done"
    srIn,           \* the last call: adapter, tags, limit, page, the source's posts
    srRet,          \* what it returned, or Raise(e)
    danPage,        \* DanbooruFinder.__page
    \* ---- callers of Finder.cancel_fetch / Finder.fetch_data in several threads
    ccExecutor,     \* Finder.__inner_executor: 0 (None) or t, the executor thread t made
    ccPosts,        \* Finder.__temp_posts: "none" | "list" | "deleted" (after del)
    ccPostExec,     \* Post.__inner_executor of the post of the list: "none" | "live"
    ccOwn,          \* per thread: the executor it made: "none" | "live" | "shut"
    ccPc,           \* per thread: where its call is
    ccOp,           \* per thread: "none" | "cancel" | "fetch", the call it makes
    ccErr,          \* per thread: the exception its call raised, "" for none
    \* ---- the pagination / retry loop of an adapter's _get_all_posts
    rtPc,           \* "idle" | "request" | "sleep" | "returned"
    rtName,         \* the adapter whose loop runs
    rtLimit,        \* limit
    rtCount,        \* len(current_posts) / len(all_posts)
    rtRetries,      \* KonachanFinder.__retries
    rtRet           \* the number of posts returned

aggVars == <<clients, aliases, callPc, callOp, callClient, callTags, callIdx,
             callAcc, callLog, callRet, postChildren>>
filterVars == <<filterPc, filterIn, filterGen, filterRet>>
postVars == <<postPc, postArgs, post, exportPc, exported, importPc, imported>>

fetchVars == <<fetchPc, fetchArgs, finderExecutor, finderPool, tempPosts, recTask,
               postExecutor, postPool, shouldCancel, fetchedData, dataOf, refTask,
               cancelPc, cancelIdx, cancelCount, cancelDone, cancelErr>>

configVars == <<cfg, cfgCalls, cfgLast>>
downloadVars == <<dlPc, dlIn, dlTask, dlEnd, dlRet>>
searchVars == <<srPc, srIn, srRet, danPage>>
callerVars == <<ccExecutor, ccPosts, ccPostExec, ccOwn, ccPc, ccOp, ccErr>>
retryVars == <<rtPc, rtName, rtLimit, rtCount, rtRetries, rtRet>>

vars == <<aggVars, filterVars, postVars, fetchVars, configVars, downloadVars,
         searchVars, callerVars, retryVars>>
notAgg == <<filterVars, postVars, fetchVars, configVars, downloadVars, searchVars,
    callerVars, retryVars>>
notFilter == <<aggVars, postVars, fetchVars, configVars, downloadVars, searchVars,
    callerVars, retryVars>>
notPost == <<aggVars, filterVars, fetchVars, configVars, downloadVars, searchVars,
    callerVars, retryVars>>
notFetch == <<aggVars, filterVars, postVars, configVars, downloadVars, searchVars,
    callerVars, retryVars>>
notConfig == <<aggVars, filterVars, postVars, fetchVars, downloadVars, searchVars,
    callerVars, retryVars>>
notDownload == <<aggVars, filterVars, postVars, fetchVars, configVars, searchVars,
    callerVars, retryVars>>
notSearch == <<aggVars, filterVars, postVars, fetchVars, configVars, downloadVars,
              callerVars, retryVars>>
notCaller == <<aggVars, filterVars, postVars, fetchVars, configVars, downloadVars,
              searchVars, retryVars>>
notRetry == <<aggVars, filterVars, postVars, fetchVars, configVars, downloadVars,
             searchVars, callerVars>>

None == "None"
\* A name without an entry in the alias table / with the table it maps to.
Absent == [present |-> FALSE, table |-> <<>>]
Present(t) == [present |-> TRUE, table |-> t]

\* What a call gives back: None, a list of posts, one post, or a raised error.
RetNone == [kind |-> "none", err |-> "", posts |-> <<>>]
RetList(l) == [kind |-> "list", err |-> "", posts |-> l]
RetPost(p) == [kind |-> "post", err |-> "", posts |-> <<p>>]
Raise(e) == [kind |-> "raise", err |-> e, posts |-> <<>>]
IsRaise(x) == x.kind = "raise"

\* ---------------------------------------------------------------- bounds
\* Longest result list one adapter returns for a query.
MaxRes == 2
\* Most entries in one adapter's alias table.
MaxAliases == 1

Names == {"danbooru", "rule34", "gelbooru"}
Insts == {1, 2}
PostIds == {7}
AliasTags == {<<"t">>}
AliasValues == {<<"u", "u">>}
QueryTags == {<<"u", "t">>}

\* ---------------------------------------------------------------- helpers
Range(s) == {s[i] : i \in DOMAIN s}

RECURSIVE IndexOfFrom(_, _, _)
IndexOfFrom(s, x, i) ==
    IF i > Len(s) THEN 0
    ELSE IF s[i] = x THEN i ELSE IndexOfFrom(s, x, i + 1)

ClientNames == [i \in DOMAIN clients |-> clients[i].name]

\* Position of name in __clients, 0 when it is not a key.
ClientIndex(name) == IndexOfFrom(ClientNames, name, 1)

\* name in self.__clients.keys()
HasSubfinder(name) == ClientIndex(name) # 0

IsPrefixAt(s, old, i) ==
    /\ i + Len(old) - 1 <= Len(s)
    /\ \A j \in 1..Len(old) : s[i + j - 1] = old[j]

\* str.replace(old, new) for a non-empty old: leftmost, non-overlapping.
RECURSIVE ReplaceFrom(_, _, _, _)
ReplaceFrom(s, old, new, i) ==
    IF i > Len(s) THEN <<>>
    ELSE IF IsPrefixAt(s, old, i)
         THEN new \o ReplaceFrom(s, old, new, i + Len(old))
         ELSE <<s[i]>> \o ReplaceFrom(s, old, new, i + 1)

Replace(s, old, new) == ReplaceFrom(s, old, new, 1)

\* for tag, alias in client_aliases.items(): result_tags = result_tags.replace(tag, alias)
RECURSIVE ApplyAliases(_, _, _)
ApplyAliases(tags, table, i) ==
    IF i > Len(table) THEN tags
    ELSE ApplyAliases(Replace(tags, table[i].tag, table[i].alias), table, i + 1)

\* Were an assignment to an existing key to move it to the end.
DictSetMut(d, keyField, entry) ==
    LET others == SelectSeq(d, LAMBDA e : e[keyField] # entry[keyField])
    IN Append(others, entry)

\* dict[key] = value on a dict kept as a sequence of entries in insertion order:
\* an existing key keeps its position.
DictSet(d, keyField, entry) ==
    IF \E i \in DOMAIN d : d[i][keyField] = entry[keyField]
    THEN [i \in DOMAIN d |-> IF d[i][keyField] = entry[keyField] THEN entry ELSE d[i]]
    ELSE Append(d, entry)

DictPop(d, keyField, key) ==
    LET keep == {i \in DOMAIN d : d[i][keyField] # key}
        F[i \in 0..Len(d)] ==
            IF i = 0 THEN <<>>
            ELSE IF i \in keep THEN Append(F[i - 1], d[i]) ELSE F[i - 1]
    IN F[Len(d)]

\* What an adapter can answer to search_posts: a list of 0..MaxRes of its posts.
SearchAnswer(c, n) == [k \in 1..n |-> <<c.name, c.inst, k>>]
\* What an adapter can answer to get_post: None or its post.
GetAnswer(c, id) == <<c.name, c.inst, id>>

\* ---------------------------------------------------------------- aggregator
\* The adapter answered (or raised): the last entry of the query log says what.
Answered(log, state, posts) ==
    [log EXCEPT ![Len(log)].state = state, ![Len(log)].posts = posts]

\* all_posts += posts
MergeMut(acc, posts) == posts \o acc
Merge(acc, posts) == acc \o posts

\* get_post stops at an adapter: the call is scoped, or `if post != None: return post`
GetStopsMut(scoped, found) == scoped
GetStops(scoped, found) == scoped \/ found

AggIdle == callPc \in {"idle", "done"}

\* An API call that finished in one step.
AggFinish(op, ret) ==
    /\ callPc' = "done"
    /\ callOp' = op
    /\ callRet' = ret
    /\ callClient' = None
    /\ callTags' = <<>>
    /\ callIdx' = 0
    /\ callAcc' = <<>>
    /\ callLog' = <<>>

AliasResetMut(al, name) == al
\* `self.__config.get_config("aliases")[name] = {}`
AliasReset(al, name) == [al EXCEPT ![name] = Present(<<>>)]

\* Finder.add_subfinder; callIdx keeps where `self.__clients[name] = subfinder`
\* found the name (0: it was not a key).
AddSubfinder(name, inst, isSubfinder) ==
    /\ UNCHANGED notAgg
    /\ UNCHANGED postChildren
    /\ AggIdle
    /\ IF ~isSubfinder
       THEN /\ AggFinish("add_subfinder", Raise("TypeError"))
            /\ UNCHANGED <<clients, aliases>>
       ELSE /\ clients' = DictSet(clients, "name", [name |-> name, inst |-> inst])
            /\ aliases' = AliasReset(aliases, name)
            /\ callPc' = "done"
            /\ callOp' = "add_subfinder"
            /\ callRet' = RetNone
            /\ callClient' = None
            /\ callTags' = <<>>
            /\ callIdx' = ClientIndex(name)
            /\ callAcc' = <<>>
            /\ callLog' = <<>>

\* Finder.remove_subfinder
RemoveSubfinder(name) ==
    /\ UNCHANGED notAgg
    /\ UNCHANGED postChildren
    /\ AggIdle
    /\ IF HasSubfinder(name)
       THEN /\ clients' = DictPop(clients, "name", name)
            /\ AggFinish("remove_subfinder", RetNone)
       ELSE /\ AggFinish("remove_subfinder", Raise("KeyError"))
            /\ UNCHANGED clients
    /\ UNCHANGED aliases

\* Finder._check_subfinder_exists
CheckSubfinderExistsMut(client) == TRUE
CheckSubfinderExists(client) == HasSubfinder(client)

\* Finder.set_tag_alias
SetTagAlias(tag, alias, client) ==
    /\ UNCHANGED notAgg
    /\ UNCHANGED postChildren
    /\ AggIdle
    /\ callPc' = "done"
    /\ callOp' = "set_tag_alias"
    /\ callClient' = client
    /\ callTags' = <<>>
    /\ callIdx' = 0
    /\ callAcc' = <<>>
    /\ callLog' = <<>>
    /\ IF ~CheckSubfinderExists(client)
       THEN /\ callRet' = Raise("ValueError")
            /\ UNCHANGED aliases
       ELSE LET table == IF aliases[client].present THEN aliases[client].table ELSE <<>>
                new == DictSet(table, "tag", [tag |-> tag, alias |-> alias])
            IN /\ Len(new) <= MaxAliases
               /\ aliases' = [aliases EXCEPT ![client] = Present(new)]
               /\ callRet' = RetNone
    /\ UNCHANGED clients

\* The operations that return the adapters' lists, concatenated, and those that
\* return the first answer that is not None.
ListOps == {"search_posts", "search_posts_async", "search_comments", "get_notes",
            "post_get_children"}
FirstOps == {"get_post", "get_comment", "post_get_parent"}
\* The operations that translate the tags with the adapter's aliases.
AliasOps == {"search_posts", "search_posts_async"}

\* The operations called here with a client only.
ScopedOps == {"search_comments", "get_comment", "get_notes", "post_get_parent",
              "post_get_children"}

\* A Finder operation with a client argument: entry, up to the first adapter
\* query (client = None: over every adapter).
CallBegin(op, tags, client) ==
    /\ UNCHANGED notAgg
    /\ UNCHANGED postChildren
    /\ AggIdle
    /\ IF client # None /\ ~CheckSubfinderExists(client)
       THEN /\ callPc' = "done"
            /\ callOp' = op
            /\ callClient' = client
            /\ callTags' = tags
            /\ callIdx' = 0
            /\ callAcc' = <<>>
            /\ callLog' = <<>>
            /\ callRet' = Raise("ValueError")
       ELSE /\ callPc' = "loop"
            /\ callOp' = op
            /\ callClient' = client
            /\ callTags' = tags
            /\ callIdx' = IF client = None THEN 1 ELSE ClientIndex(client)
            /\ callAcc' = <<>>
            /\ callLog' = <<>>
            /\ callRet' = RetNone
    /\ UNCHANGED <<clients, aliases>>

\* The loop reaches an adapter: translate the tags, call the adapter.
QueryIssue ==
    /\ UNCHANGED notAgg
    /\ UNCHANGED postChildren
    /\ callPc = "loop"
    /\ callIdx \in DOMAIN clients
    /\ LET c == clients[callIdx]
       IN IF callOp \in AliasOps /\ ~aliases[c.name].present
          THEN /\ callPc' = "done"
               /\ callRet' = Raise("KeyError")
               /\ UNCHANGED callLog
          ELSE /\ callPc' = "pending"
               /\ callLog' = Append(callLog,
                      [name |-> c.name, inst |-> c.inst, state |-> "pending",
                       posts |-> <<>>,
                       tags |-> IF callOp \in AliasOps
                                THEN ApplyAliases(callTags, aliases[c.name].table, 1)
                                ELSE callTags])
               /\ UNCHANGED callRet
    /\ UNCHANGED <<clients, aliases, callOp, callClient, callTags, callIdx, callAcc>>

SetChildrenMut(children, name, posts) == children \o posts
\* The adapter's post_get_children ends in `return post._set_children(children_posts)`
\* (`self.__children = children_posts.copy()`); Rule34Finder's returns [] before
\* it when it found no children.
SetChildren(children, name, posts) ==
    IF name = "rule34" /\ posts = <<>> THEN children ELSE posts

\* The adapter's search_posts (search_comments, ..., post_get_children) returns a
\* list.
SearchReturn(n) ==
    /\ UNCHANGED notAgg
    /\ callPc = "pending"
    /\ callOp \in ListOps
    /\ postChildren' =
          IF callOp = "post_get_children"
          THEN SetChildren(postChildren, clients[callIdx].name,
                           SearchAnswer(clients[callIdx], n))
          ELSE postChildren
    /\ LET posts == SearchAnswer(clients[callIdx], n)
       IN IF callClient # None
          THEN /\ callPc' = "done"
               /\ callRet' = RetList(posts)
               /\ callLog' = Answered(callLog, "returned", posts)
               /\ UNCHANGED <<callAcc, callIdx>>
          ELSE /\ callPc' = "loop"
               /\ callAcc' = Merge(callAcc, posts)
               /\ callLog' = Answered(callLog, "returned", posts)
               /\ callIdx' = callIdx + 1
               /\ UNCHANGED callRet
    /\ UNCHANGED <<clients, aliases, callOp, callClient, callTags>>

\* The adapter's get_post (get_comment, post_get_parent) returns a post or None.
GetReturn(found) ==
    /\ UNCHANGED notAgg
    /\ UNCHANGED postChildren
    /\ callPc = "pending"
    /\ callOp \in FirstOps
    /\ callLog' = Answered(callLog, "returned",
                           IF found THEN <<GetAnswer(clients[callIdx], callTags[1])>>
                                    ELSE <<>>)
    /\ IF GetStops(callClient # None, found)
       THEN /\ callPc' = "done"
            /\ callRet' = IF found THEN RetPost(GetAnswer(clients[callIdx], callTags[1]))
                                    ELSE RetNone
            /\ UNCHANGED callIdx
       ELSE /\ callPc' = "loop"
            /\ callIdx' = callIdx + 1
            /\ UNCHANGED callRet
    /\ UNCHANGED <<clients, aliases, callOp, callClient, callTags, callAcc>>

\* The adapter raises: neither search_posts nor get_post catches anything.
QueryRaise ==
    /\ UNCHANGED notAgg
    /\ UNCHANGED postChildren
    /\ callPc = "pending"
    /\ callPc' = "done"
    /\ callRet' = Raise("AdapterError")
    /\ callLog' = Answered(callLog, "raised", <<>>)
    /\ UNCHANGED <<clients, aliases, callOp, callClient, callTags, callIdx, callAcc>>

\* The loop over __clients is exhausted.
LoopEnd ==
    /\ UNCHANGED notAgg
    /\ UNCHANGED postChildren
    /\ callPc = "loop"
    /\ callClient = None
    /\ callIdx > Len(clients)
    /\ callPc' = "done"
    /\ callRet' = IF callOp \in ListOps THEN RetList(callAcc) ELSE RetNone
    /\ UNCHANGED <<clients, aliases, callOp, callClient, callTags, callIdx, callAcc, callLog>>

AggInit ==
    /\ clients = <<>>
    /\ aliases = [n \in Names |-> Absent]
    /\ callPc = "idle"
    /\ callOp = None
    /\ callClient = None
    /\ callTags = <<>>
    /\ callIdx = 0
    /\ callAcc = <<>>
    /\ callLog = <<>>
    /\ callRet = RetNone
    /\ postChildren = <<>>

\* The aggregator as constructed, when another specification runs.
AggFrozen == AggInit

AggNext ==
    \/ \E name \in Names, inst \in Insts, ok \in BOOLEAN : AddSubfinder(name, inst, ok)
    \/ \E name \in Names : RemoveSubfinder(name)
    \/ \E tag \in AliasTags, alias \in AliasValues, client \in Names :
          SetTagAlias(tag, alias, client)
    \/ \E tags \in QueryTags, client \in Names \cup {None} :
          CallBegin("search_posts", tags, client)
    \/ \E id \in PostIds, client \in Names \cup {None} :
          CallBegin("get_post", <<id>>, client)
    \/ QueryIssue
    \/ \E n \in 0..MaxRes : SearchReturn(n)
    \/ \E found \in BOOLEAN : GetReturn(found)
    \/ QueryRaise
    \/ LoopEnd

\* hasattr(client_subfinder, "search_posts_async"): GelbooruFinder alone defines it.
IsAsyncAdapter(name) == name = "gelbooru"

\* A query made through the adapter's blocking search_posts is running inside
\* the event loop: no other task of the loop runs until it returns.
LoopBusy ==
    \E i \in DOMAIN callLog :
        callLog[i].state = "pending" /\ ~IsAsyncAdapter(callLog[i].name)

\* Finder.search_posts_async without a client, up to aiometer.amap.
AsyncBegin(tags) ==
    /\ UNCHANGED notAgg
    /\ UNCHANGED postChildren
    /\ AggIdle
    /\ callPc' = "async"
    /\ callOp' = "search_posts_async"
    /\ callClient' = None
    /\ callTags' = tags
    /\ callIdx' = 0
    /\ callAcc' = <<>>
    /\ callLog' = <<>>
    /\ callRet' = RetNone
    /\ UNCHANGED <<clients, aliases>>

\* The _search task of the next client starts (amap starts the tasks in the
\* order of __clients.items()) and calls the adapter.
AsyncStart ==
    /\ UNCHANGED notAgg
    /\ UNCHANGED postChildren
    /\ callPc = "async"
    /\ Len(callLog) < Len(clients)
    /\ ~LoopBusy
    /\ LET c == clients[Len(callLog) + 1]
       IN IF ~aliases[c.name].present
          THEN /\ callPc' = "done"
               /\ callRet' = Raise("KeyError")
               /\ UNCHANGED callLog
          ELSE /\ callLog' = Append(callLog,
                      [name |-> c.name, inst |-> c.inst, state |-> "pending",
                       posts |-> <<>>,
                       tags |-> ApplyAliases(callTags, aliases[c.name].table, 1)])
               /\ UNCHANGED <<callPc, callRet>>
    /\ UNCHANGED <<clients, aliases, callOp, callClient, callTags, callIdx, callAcc>>

\* The query of task k returns; `async for result in results: all_posts += result`
\* takes the results as the tasks deliver them.
AsyncReturn(k, n) ==
    /\ UNCHANGED notAgg
    /\ UNCHANGED postChildren
    /\ callPc = "async"
    /\ k \in DOMAIN callLog
    /\ callLog[k].state = "pending"
    /\ IsAsyncAdapter(callLog[k].name) => ~LoopBusy
    /\ LET posts == SearchAnswer(clients[k], n)
       IN /\ callLog' = [callLog EXCEPT ![k].state = "returned", ![k].posts = posts]
          /\ callAcc' = Merge(callAcc, posts)
    /\ UNCHANGED <<clients, aliases, callPc, callOp, callClient, callTags, callIdx,
                   callRet>>

\* The query of task k raises: the exception leaves amap and the call.
AsyncRaise(k) ==
    /\ UNCHANGED notAgg
    /\ UNCHANGED postChildren
    /\ callPc = "async"
    /\ k \in DOMAIN callLog
    /\ callLog[k].state = "pending"
    /\ IsAsyncAdapter(callLog[k].name) => ~LoopBusy
    /\ callPc' = "done"
    /\ callRet' = Raise("AdapterError")
    /\ callLog' = [callLog EXCEPT ![k].state = "raised"]
    /\ UNCHANGED <<clients, aliases, callOp, callClient, callTags, callIdx, callAcc>>

\* Every task delivered its result: `return all_posts`.
AsyncEnd ==
    /\ UNCHANGED notAgg
    /\ UNCHANGED postChildren
    /\ callPc = "async"
    /\ Len(callLog) = Len(clients)
    /\ \A i \in DOMAIN callLog : callLog[i].state = "returned"
    /\ callPc' = "done"
    /\ callRet' = RetList(callAcc)
    /\ UNCHANGED <<clients, aliases, callOp, callClient, callTags, callIdx, callAcc,
                   callLog>>

\* The adapters of the runs of both search modes.
AsyncNames == {"gelbooru", "danbooru"}

\* search_posts and search_posts_async over every adapter.
AsyncNext ==
    \/ \E name \in AsyncNames : AddSubfinder(name, 1, TRUE)
    \/ \E name \in AsyncNames : RemoveSubfinder(name)
    \/ \E tags \in QueryTags : CallBegin("search_posts", tags, None)
    \/ QueryIssue
    \/ \E n \in 0..MaxRes : SearchReturn(n)
    \/ QueryRaise
    \/ LoopEnd
    \/ \E tags \in QueryTags : AsyncBegin(tags)
    \/ AsyncStart
    \/ \E k \in 1..Cardinality(AsyncNames), n \in 0..MaxRes : AsyncReturn(k, n)
    \/ \E k \in 1..Cardinality(AsyncNames) : AsyncRaise(k)
    \/ AsyncEnd

\* The adapter names and instances of the runs over every scoped operation.
ScopedNames == {"danbooru", "rule34"}
ScopedInsts == {1}

\* post_get_children of one post, with a client and over every adapter.
ChildrenNext ==
    \/ \E name \in ScopedNames : AddSubfinder(name, 1, TRUE)
    \/ \E id \in PostIds, client \in ScopedNames \cup {None} :
          CallBegin("post_get_children", <<id>>, client)
    \/ QueryIssue
    \/ \E n \in 0..MaxRes : SearchReturn(n)
    \/ QueryRaise
    \/ LoopEnd

\* Every operation that takes a client, called with a client.
ScopedNext ==
    \/ \E name \in ScopedNames, inst \in ScopedInsts : AddSubfinder(name, inst, TRUE)
    \/ \E name \in ScopedNames : RemoveSubfinder(name)
    \/ \E tag \in AliasTags, alias \in AliasValues, client \in ScopedNames :
          SetTagAlias(tag, alias, client)
    \/ \E op \in AliasOps, tags \in QueryTags, client \in ScopedNames :
          CallBegin(op, tags, client)
    \/ \E op \in ScopedOps \cup {"get_post"}, id \in PostIds, client \in ScopedNames :
          CallBegin(op, <<id>>, client)
    \/ QueryIssue
    \/ \E n \in 0..MaxRes : SearchReturn(n)
    \/ \E found \in BOOLEAN : GetReturn(found)
    \/ QueryRaise

\* ---------------------------------------------------------------- deduplication
\* Most posts in the list given to filter_by_md5, and most hashes of one post.
MaxFilterPosts == 3
MaxHashes == 2

Hashes == {"h1", "h2"}

SeqsUpTo(S, n) == UNION {[1..k -> S] : k \in 0..n}

\* A post's md5 property: a list of hashes, or something that is not a list.
Md5Values ==
    {[isList |-> TRUE, items |-> l] : l \in SeqsUpTo(Hashes, MaxHashes)}
        \cup {[isList |-> FALSE, items |-> <<>>]}

\* check(post), from its `for md5_hash in post.md5` on: hash_list grows hash by
\* hash while the post is being looked at.
RECURSIVE CheckHashes(_, _, _)
CheckHashes(md5, hashList, j) ==
    IF j > Len(md5) THEN [keep |-> TRUE, hashList |-> hashList]
    ELSE IF md5[j] \in Range(hashList) THEN [keep |-> FALSE, hashList |-> hashList]
    ELSE CheckHashes(md5, Append(hashList, md5[j]), j + 1)

\* check(post): "raise" when generate_md5 is set and the post has no hash
\* (Post has no generate_md5 method; len() of a non-list fails).
Check(md5, gen, hashList) ==
    IF gen /\ (~md5.isList \/ Len(md5.items) = 0)
    THEN [kind |-> "raise", keep |-> FALSE, hashList |-> hashList]
    ELSE IF ~md5.isList
    THEN [kind |-> "ok", keep |-> TRUE, hashList |-> hashList]
    ELSE LET r == CheckHashes(md5.items, hashList, 1)
         IN [kind |-> "ok", keep |-> r.keep, hashList |-> r.hashList]

\* list(filter(check, posts)): the indices of the posts kept, in input order.
RECURSIVE FilterFrom(_, _, _, _, _)
FilterFrom(posts, gen, i, hashList, kept) ==
    IF i > Len(posts) THEN [kind |-> "list", kept |-> kept]
    ELSE LET r == Check(posts[i], gen, hashList)
         IN IF r.kind = "raise" THEN [kind |-> "raise", kept |-> <<>>]
            ELSE FilterFrom(posts, gen, i + 1, r.hashList,
                            IF r.keep THEN Append(kept, i) ELSE kept)

FilterByMd5(posts, gen) == FilterFrom(posts, gen, 1, <<>>, <<>>)

\* Finder.filter_by_md5
FilterCall(posts, gen) ==
    /\ UNCHANGED notFilter
    /\ filterPc = "idle"
    /\ filterPc' = "done"
    /\ filterIn' = posts
    /\ filterGen' = gen
    /\ filterRet' = FilterByMd5(posts, gen)

FilterInit ==
    /\ filterPc = "idle"
    /\ filterIn = <<>>
    /\ filterGen = FALSE
    /\ filterRet = [kind |-> "list", kept |-> <<>>]

FilterFrozen == FilterInit

FilterNext ==
    \E posts \in SeqsUpTo(Md5Values, MaxFilterPosts), gen \in BOOLEAN :
        FilterCall(posts, gen)

\* ---------------------------------------------------------------- Post
\* Most pages (images) of a multi-page post.
MaxPages == 2

\* A Python value of the kinds the Post fields hold. Strings that the code takes
\* apart (rating strings, URLs) are sequences: of characters, of path segments.
PyNone == [t |-> "none", n |-> 0, s |-> <<>>]
PyInt(n) == [t |-> "int", n |-> n, s |-> <<>>]
PyStr(s) == [t |-> "str", n |-> 0, s |-> s]
\* A member of the Rating enum (class Rating(int, Enum)).
PyRating(n) == [t |-> "enum", n |-> n, s |-> <<>>]
\* A width/height pair (tuple or list), or a bare int where a pair should be.
PyPair(t, w, h) == [t |-> t, n |-> 0, items |-> <<w, h>>]
PyBare(n) == [t |-> "int", n |-> n, items |-> <<>>]
PySeq(t, items) == [t |-> t, items |-> items]

GENERAL == 1
SENSITIVE == 2
QUESTIONABLE == 3
EXPLICIT == 4
UNKNOWN == 5

\* Post.__rating_general .. Post.__rating_explicit
RatingGeneral == {<<"s">>, <<"s", "a", "f", "e">>, <<"g", "e", "n", "e", "r", "a", "l">>, <<"g">>}
RatingSensitive == {<<"s", "e", "n", "s", "i", "t", "i", "v", "e">>, <<"s">>}
RatingQuestionable == {<<"q", "u", "e", "s", "t", "i", "o", "n", "a", "b", "l", "e">>, <<"q">>}
RatingExplicit == {<<"e">>, <<"e", "x", "p", "l", "i", "c", "i", "t">>}

UpperOf ==
    [c \in {"a", "b", "c", "e", "f", "g", "i", "l", "n", "o", "p", "q", "r", "s", "t", "u", "v", "x"} |->
        CASE c = "a" -> "A" [] c = "b" -> "B" [] c = "c" -> "C" [] c = "e" -> "E"
          [] c = "f" -> "F" [] c = "g" -> "G" [] c = "i" -> "I" [] c = "l" -> "L"
          [] c = "n" -> "N" [] c = "o" -> "O" [] c = "p" -> "P" [] c = "q" -> "Q"
          [] c = "r" -> "R" [] c = "s" -> "S" [] c = "t" -> "T" [] c = "u" -> "U"
          [] c = "v" -> "V" [] c = "x" -> "X"]

\* str.lower() of one character.
LowerChar(c) ==
    IF \E l \in DOMAIN UpperOf : UpperOf[l] = c
    THEN CHOOSE l \in DOMAIN UpperOf : UpperOf[l] = c
    ELSE c

\* str.lower()
LowerNoop(str) == str
Lower(str) == [i \in DOMAIN str |-> LowerChar(str[i])]

\* Post._get_rating
GetRating(rating) ==
    IF rating.t = "none" THEN UNKNOWN
    ELSE LET r == Lower(rating.s)
         IN IF r \in RatingGeneral THEN GENERAL
            ELSE IF r \in RatingSensitive THEN SENSITIVE
            ELSE IF r \in RatingQuestionable THEN QUESTIONABLE
            ELSE IF r \in RatingExplicit THEN EXPLICIT
            ELSE UNKNOWN

\* url.split("/")[-1]
Filename(url) == url[Len(url)]

\* The name field: the given name ("" for None or an empty name), or
\* f"Post #{post_id}".
GivenName(s) == [auto |-> FALSE, id |-> 0, s |-> s]
AutoName(id) == [auto |-> TRUE, id |-> id, s |-> ""]

PostKeys ==
    <<"post_id", "tags", "sources", "images", "authors", "source", "preview", "md5",
      "rating", "parent_id", "dimensions", "poster", "poster_id", "name">>

\* __post_data before any Post was built; md5Pending: the _generate_md5 thread
\* was started and has not stored its result.
NoPost ==
    [post_id |-> 0, tags |-> <<>>, sources |-> <<>>, images |-> <<>>,
     authors |-> <<>>, source |-> "", preview |-> "", md5 |-> <<>>,
     rating |-> PyNone, parent_id |-> PyNone, dimensions |-> PySeq("list", <<>>),
     poster |-> "", poster_id |-> PyNone, name |-> GivenName(""),
     filenames |-> <<>>, md5Pending |-> FALSE]

NoArgs ==
    [post_id |-> 0, tags |-> <<>>, sources |-> <<>>, images |-> <<>>,
     authors |-> <<>>, source |-> "", preview |-> "",
     md5 |-> [isList |-> FALSE, items |-> <<>>],
     rating |-> PyNone, parent_id |-> PyNone, dimensions |-> PySeq("list", <<>>),
     poster |-> "", poster_id |-> PyNone, name |-> GivenName("")]

\* `type(md5) != list or len(md5) == 0 or md5[0] == None`
Md5Missing(md5) == ~md5.isList \/ Len(md5.items) = 0 \/ md5.items[1] = None

\* Post.__init__: "raise" when rating is neither None, a str nor a Rating
\* (rating_string.lower()) or when images is empty (images[0]).
NewPost(a) ==
    IF a.rating.t \notin {"none", "str", "enum"} THEN [kind |-> "raise", err |-> "AttributeError", post |-> NoPost]
    ELSE IF Len(a.images) = 0 THEN [kind |-> "raise", err |-> "IndexError", post |-> NoPost]
    ELSE [kind |-> "post", err |-> "",
          post |->
            [post_id |-> a.post_id, tags |-> a.tags, sources |-> a.sources,
             images |-> a.images, authors |-> a.authors, source |-> a.source,
             preview |-> a.preview,
             md5 |-> IF Md5Missing(a.md5) THEN <<>> ELSE a.md5.items,
             rating |-> IF a.rating.t = "enum" THEN a.rating
                        ELSE PyRating(GetRating(a.rating)),
             parent_id |-> a.parent_id, dimensions |-> a.dimensions,
             poster |-> a.poster, poster_id |-> a.poster_id,
             name |-> IF a.name = GivenName("") THEN AutoName(a.post_id) ELSE a.name,
             filenames |-> [i \in DOMAIN a.images |-> Filename(a.images[i])],
             md5Pending |-> Md5Missing(a.md5)]]

\* _generate_md5: one request per image; "" for a failed request, else the digest
\* of the content (here: named after the file).
GeneratedMd5(images, ok) ==
    [i \in DOMAIN images |-> IF ok[i] THEN Filename(images[i]) ELSE ""]

\* json.loads(json.dumps(v)): a Rating becomes its int, a tuple becomes a list.
JsonRating(r) == IF r.t = "enum" THEN PyInt(r.n) ELSE r
JsonPair(d) == IF d.t = "tuple" THEN [d EXCEPT !.t = "list"] ELSE d
JsonDimensions(d) == PySeq("list", [i \in DOMAIN d.items |-> JsonPair(d.items[i])])

\* The data written by export_post and read back by import_post from the file.
JsonOfPost(p) ==
    [post_id |-> p.post_id, tags |-> p.tags, sources |-> p.sources,
     images |-> p.images, authors |-> p.authors, source |-> p.source,
     preview |-> p.preview, md5 |-> [isList |-> TRUE, items |-> p.md5],
     rating |-> JsonRating(p.rating), parent_id |-> p.parent_id,
     dimensions |-> JsonDimensions(p.dimensions), poster |-> p.poster,
     poster_id |-> p.poster_id, name |-> p.name]

\* post_dict handed to import_post as it is: no JSON conversion.
DictOfPost(p) ==
    [JsonOfPost(p) EXCEPT !.rating = p.rating, !.dimensions = p.dimensions]

\* tuple(dim): fails on an int.
TupleOf(d) == [d EXCEPT !.t = "tuple"]

\* The first key of PostKeys, in the order import_post reads them, that the
\* data lacks; 0 when none is missing.
RECURSIVE FirstMissing(_, _)
FirstMissing(keys, i) ==
    IF i > Len(PostKeys) THEN 0
    ELSE IF PostKeys[i] \notin keys THEN i ELSE FirstMissing(keys, i + 1)

RatingIdx == 9
DimensionsIdx == 11

\* The Post(...) call of import_post.
ImportedPost(a) == NewPost(a)

\* Post.import_post on parsed data that lacks the keys in `missing`: the arguments of Post(...)
\* are evaluated in the order written, so a missing key (KeyError, caught: None is
\* returned), Rating(...) (ValueError) and tuple(dim) (TypeError) fail in that order.
ImportPost(missing, data) ==
    LET miss == FirstMissing(Range(PostKeys) \ missing, 1)
        reached(i) == miss = 0 \/ miss > i
        badRating == ~(data.rating.t \in {"int", "enum"} /\ data.rating.n \in 1..5)
        badDims == \E i \in DOMAIN data.dimensions.items :
                      data.dimensions.items[i].t = "int"
    IN IF reached(RatingIdx) /\ badRating
       THEN [kind |-> "raise", err |-> "ValueError", post |-> NoPost]
       ELSE IF reached(DimensionsIdx) /\ badDims
       THEN [kind |-> "raise", err |-> "TypeError", post |-> NoPost]
       ELSE IF miss # 0
       THEN [kind |-> "none", err |-> PostKeys[miss], post |-> NoPost]
       ELSE ImportedPost(
              [post_id |-> data.post_id, tags |-> data.tags, sources |-> data.sources,
               images |-> data.images, authors |-> data.authors,
               source |-> data.source, preview |-> data.preview, md5 |-> data.md5,
               rating |-> PyRating(data.rating.n), parent_id |-> data.parent_id,
               dimensions |->
                   PySeq("list", [i \in DOMAIN data.dimensions.items |->
                                     TupleOf(data.dimensions.items[i])]),
               poster |-> data.poster, poster_id |-> data.poster_id,
               name |-> data.name])

\* Most keys removed from the data handed to import_post.
MaxMissing == 2

\* The case variants of a lower-case word.
RECURSIVE CaseVariants(_)
CaseVariants(w) ==
    IF w = <<>> THEN {<<>>}
    ELSE {<<c>> \o v : c \in {Head(w), UpperOf[Head(w)]}, v \in CaseVariants(Tail(w))}

UpperStr(w) == [i \in DOMAIN w |-> UpperOf[w[i]]]

\* The rating arguments tried: None, the table words in several letter cases,
\* strings in no table, Rating members, and an int.
RatingInputs ==
    {PyNone, PyInt(1)}
        \cup {PyRating(k) : k \in 1..5}
        \cup {PyStr(v) : v \in UNION {CaseVariants(w) :
                                         w \in {<<"s">>, <<"g">>, <<"s", "a", "f", "e">>}}}
        \cup {PyStr(w) : w \in RatingGeneral \cup RatingSensitive
                                    \cup RatingQuestionable \cup RatingExplicit}
        \cup {PyStr(UpperStr(w)) : w \in RatingGeneral \cup RatingSensitive
                                    \cup RatingQuestionable \cup RatingExplicit}
        \cup {PyStr(<<>>), PyStr(<<"x">>), PyStr(<<"s", "x">>), PyStr(<<"G", "x">>)}

Url(file) == <<"https:", "", "cdn", file>>
Pages(n) == [i \in 1..n |-> Url(IF i = 1 THEN "p1.png" ELSE "p2.png")]

\* DanbooruFinder.to_post (Gelbooru, Konachan, Yandere and Rule34 alike): one
\* image, md5 and rating from the source.
DanbooruArgs(rating, md5, parent) ==
    [post_id |-> 7, tags |-> <<"cat", "hat">>, sources |-> <<"src">>,
     images |-> <<Url("a.png")>>, authors |-> <<"artist">>, source |-> "danbooru",
     preview |-> "preview.png", md5 |-> [isList |-> TRUE, items |-> <<md5>>],
     rating |-> rating, parent_id |-> parent,
     dimensions |-> PySeq("list", <<PyPair("tuple", 640, 480)>>),
     poster |-> "bob", poster_id |-> PyInt(5), name |-> GivenName("")]

\* PixivFinder.to_post
PixivArgs(n) ==
    [post_id |-> 8, tags |-> <<"cat">>, sources |-> <<>>, images |-> Pages(n),
     authors |-> <<"artist">>, source |-> "pixiv", preview |-> "large.png",
     md5 |-> [isList |-> FALSE, items |-> <<>>], rating |-> PyNone,
     parent_id |-> PyNone,
     dimensions |-> PySeq("list", [i \in 1..n |-> PyPair("tuple", 640, 480)]),
     poster |-> "artist", poster_id |-> PyInt(5), name |-> GivenName("")]

\* ManganatoFinder.to_post of a Manga: dimensions is one (width, height) tuple.
ManganatoMangaArgs ==
    [post_id |-> 9, tags |-> <<"drama">>, sources |-> <<"chapter-1">>,
     images |-> <<Url("cover.png")>>, authors |-> <<"artist">>,
     source |-> "manganato", preview |-> "thumb.png",
     md5 |-> [isList |-> FALSE, items |-> <<>>], rating |-> PyNone,
     parent_id |-> PyNone,
     dimensions |-> PySeq("tuple", <<PyBare(640), PyBare(480)>>),
     poster |-> "", poster_id |-> PyNone, name |-> GivenName("title")]

\* ManganatoFinder.to_post of a Chapter
ManganatoChapterArgs(n) ==
    [post_id |-> 10, tags |-> <<"drama">>, sources |-> <<>>, images |-> Pages(n),
     authors |-> <<"artist">>, source |-> "manganato", preview |-> "p1.png",
     md5 |-> [isList |-> FALSE, items |-> <<>>], rating |-> PyNone,
     parent_id |-> PyStr(<<"manga-9">>),
     dimensions |-> PySeq("list", [i \in 1..n |-> PyPair("tuple", 480, 640)]),
     poster |-> "", poster_id |-> PyNone, name |-> GivenName("")]

\* NHentaiFinder.to_post
NHentaiArgs(n) ==
    [post_id |-> 11, tags |-> <<"drama">>, sources |-> <<"gallery">>,
     images |-> Pages(n), authors |-> <<"artist">>, source |-> "nhentai",
     preview |-> "thumb.png", md5 |-> [isList |-> FALSE, items |-> <<>>],
     rating |-> PyRating(EXPLICIT), parent_id |-> PyNone,
     dimensions |-> PySeq("list", [i \in 1..n |-> PyPair("tuple", 640, 480)]),
     poster |-> "", poster_id |-> PyNone, name |-> GivenName("title")]

\* The Post(...) calls tried.
PostArgsSet ==
    {DanbooruArgs(r, "h1", PyNone) : r \in RatingInputs}
        \cup {DanbooruArgs(PyStr(<<"e">>), m, par) :
                 m \in {"h1", None}, par \in {PyNone, PyInt(3)}}
        \cup {PixivArgs(n) : n \in 1..MaxPages}
        \cup {ManganatoMangaArgs}
        \cup {ManganatoChapterArgs(n) : n \in 1..MaxPages}
        \cup {NHentaiArgs(n) : n \in 1..MaxPages}
        \cup {[PixivArgs(1) EXCEPT !.images = <<>>]}

\* Post(...)
PostConstruct(a) ==
    /\ UNCHANGED notPost
    /\ postPc = "none"
    /\ LET r == NewPost(a)
       IN /\ postPc' = IF r.kind = "post" THEN "built" ELSE "raised"
          /\ post' = r.post
    /\ postArgs' = a
    /\ UNCHANGED <<exportPc, exported, importPc, imported>>

\* The _generate_md5 thread of p stores its hashes; ok[i]: the request for
\* image i did not fail (status_code <= 400).
PostMd5Generated(ok) ==
    /\ UNCHANGED notPost
    /\ postPc = "built"
    /\ post.md5Pending
    /\ post' = [post EXCEPT !.md5 = GeneratedMd5(post.images, ok),
                            !.md5Pending = FALSE]
    /\ UNCHANGED <<postPc, postArgs, exportPc, exported, importPc, imported>>

\* p.export_post: json.dumps(self.post_dict) written to the file.
ExportPost ==
    /\ UNCHANGED notPost
    /\ postPc = "built"
    /\ exportPc = "none"
    /\ exportPc' = "done"
    /\ exported' = JsonOfPost(post)
    /\ UNCHANGED <<postPc, postArgs, post, importPc, imported>>

\* Post.import_post(path of the exported file), possibly with keys removed.
ImportFile(missing) ==
    /\ UNCHANGED notPost
    /\ exportPc = "done"
    /\ importPc = "none"
    /\ importPc' = "done"
    /\ imported' = ImportPost(missing, exported) @@ [missing |-> missing]
    /\ UNCHANGED <<postPc, postArgs, post, exportPc, exported>>

\* Post.import_post(p.post_dict)
ImportDict ==
    /\ UNCHANGED notPost
    /\ postPc = "built"
    /\ importPc = "none"
    /\ importPc' = "done"
    /\ imported' = ImportPost({}, DictOfPost(post)) @@ [missing |-> {}]
    /\ UNCHANGED <<postPc, postArgs, post, exportPc, exported>>

\* The _generate_md5 thread of the imported Post stores its hashes.
ImportedMd5Generated(ok) ==
    /\ UNCHANGED notPost
    /\ importPc = "done"
    /\ imported.kind = "post"
    /\ imported.post.md5Pending
    /\ imported' = [imported EXCEPT
                       !.post.md5 = GeneratedMd5(imported.post.images, ok),
                       !.post.md5Pending = FALSE]
    /\ UNCHANGED <<postPc, postArgs, post, exportPc, exported, importPc>>

PostInit ==
    /\ postPc = "none"
    /\ postArgs = NoArgs
    /\ post = NoPost
    /\ exportPc = "none"
    /\ exported = JsonOfPost(NoPost)
    /\ importPc = "none"
    /\ imported = [kind |-> "none", err |-> "", post |-> NoPost, missing |-> {}]

PostFrozen == PostInit

PostNext ==
    \/ \E a \in PostArgsSet : PostConstruct(a)
    \/ \E ok \in [1..Len(post.images) -> BOOLEAN] : PostMd5Generated(ok)
    \/ ExportPost
    \/ \E missing \in {m \in SUBSET Range(PostKeys) : Cardinality(m) <= MaxMissing} :
          ImportFile(missing)
    \/ ImportDict
    \/ \E ok \in [1..Len(imported.post.images) -> BOOLEAN] : ImportedMd5Generated(ok)

\* ---------------------------------------------------------------- configuration
\* Most invocations of one configuration's change callback.
MaxCallbacks == 2

\* The configurations: the Finder's, and the one of each adapter.
ConfigNames == {"danbooru", "rule34"}
Owners == {"finder"} \cup ConfigNames
\* The configurations set directly: the Finder's and an adapter's.
DirectOwners == {"finder", "danbooru"}

\* callable(self.__callback): Finder.__init__ and Rule34Finder build their
\* SubfinderConfiguration() without a callback, DanbooruFinder passes
\* self.on_config_change.
HasCallback(owner) == owner = "danbooru"

\* Keys and values of the calls: a str, a bytes, an int.
CfgStr(v) == [t |-> "str", v |-> v]
CfgBytes(v) == [t |-> "bytes", v |-> v]
CfgInt(v) == [t |-> "int", v |-> v]
CfgNone == [t |-> "none", v |-> ""]
CfgKeys == {CfgStr("X-Token"), CfgInt("5")}
CfgValues == {CfgBytes("v"), CfgInt("5")}
SettingKeys == {"api_key", "cookies", "headers", "timeout"}

CheckValidValueTypeMut(value) == TRUE
\* SubfinderConfiguration._check_valid_value_type: TRUE when it does not raise.
CheckValidValueType(value) == value.t \in {"str", "bytes"}

\* `key in ["cookies", "headers"] or key not in self.__config`
InvalidSetting(c, key) ==
    key \in {"cookies", "headers"} \/ ~\E i \in DOMAIN c.settings : c.settings[i].key = key

\* SubfinderConfiguration.__init__ (and Finder.__init__'s _set_property).
DefaultConfig(owner) ==
    [headers |-> <<[key |-> CfgStr("User-Agent"), value |-> CfgStr("")],
                   [key |-> CfgStr("Referer"), value |-> CfgStr("pixiv")]>>,
     cookies |-> <<[key |-> CfgStr("cf_clearance"), value |-> CfgStr("")]>>,
     settings |-> IF owner = "finder"
                  THEN <<[key |-> "api_key", value |-> CfgNone],
                         [key |-> "aliases", value |-> CfgNone]>>
                  ELSE <<[key |-> "api_key", value |-> CfgNone]>>]

\* self.__config["headers"][key] = value (or "cookies")
SetEntry(c, field, key, value) ==
    [c EXCEPT ![field] = DictSet(c[field], "key", [key |-> key, value |-> value])]

\* The value stored under a key, CfgNone when the key is absent.
EntryOf(d, key) ==
    IF \E i \in DOMAIN d : d[i].key = key
    THEN d[CHOOSE i \in DOMAIN d : d[i].key = key].value
    ELSE CfgNone

\* Finder.on_config_change: the method each client's configuration gets called.
ClientMethod(isCookie, isHeader) ==
    IF isHeader THEN "headers" ELSE IF isCookie THEN "cookies" ELSE "headers"

\* The configurations after `owner` changed (key, value) and ran its callback:
\* the Finder's callback is on_config_change, which sets the header or cookie on
\* every registered client; DanbooruFinder's rebuilds its API client.
AfterCallback(c, owner, key, value, isCookie, isHeader) ==
    IF HasCallback(owner) /\ owner = "finder"
    THEN [o \in Owners |->
            IF o # "finder" /\ HasSubfinder(o)
            THEN SetEntry(c[o], ClientMethod(isCookie, isHeader), key, value)
            ELSE c[o]]
    ELSE c

CfgResult(owner, op, key, value, ret) ==
    [owner |-> owner, op |-> op, key |-> key, value |-> value, ret |-> ret]

\* SubfinderConfiguration.set_header / set_cookie (field "headers" / "cookies").
SetHeaderOrCookie(owner, field, key, value) ==
    /\ UNCHANGED notConfig
    /\ LET op == IF field = "headers" THEN "set_header" ELSE "set_cookie"
       IN IF ~CheckValidValueType(key) \/ ~CheckValidValueType(value)
          THEN /\ cfgLast' = CfgResult(owner, op, key, value, "TypeError")
               /\ UNCHANGED <<cfg, cfgCalls>>
          ELSE /\ HasCallback(owner) => cfgCalls[owner] < MaxCallbacks
               /\ cfg' = AfterCallback([cfg EXCEPT ![owner] = SetEntry(@, field, key, value)],
                                       owner, key, value, field = "cookies",
                                       field = "headers")
               /\ cfgCalls' = IF HasCallback(owner)
                              THEN [cfgCalls EXCEPT ![owner] = @ + 1] ELSE cfgCalls
               /\ cfgLast' = CfgResult(owner, op, key, value, "ok")

\* SubfinderConfiguration.set_config
SetConfig(owner, key, value) ==
    /\ UNCHANGED notConfig
    /\ IF InvalidSetting(cfg[owner], key)
       THEN /\ cfgLast' = CfgResult(owner, "set_config", CfgStr(key), value, "ValueError")
            /\ UNCHANGED <<cfg, cfgCalls>>
       ELSE /\ HasCallback(owner) => cfgCalls[owner] < MaxCallbacks
            /\ cfg' = AfterCallback(
                          [cfg EXCEPT ![owner].settings =
                              DictSet(@, "key", [key |-> key, value |-> value])],
                          owner, CfgStr(key), value, FALSE, FALSE)
            /\ cfgCalls' = IF HasCallback(owner)
                           THEN [cfgCalls EXCEPT ![owner] = @ + 1] ELSE cfgCalls
            /\ cfgLast' = CfgResult(owner, "set_config", CfgStr(key), value, "ok")

ConfigInit ==
    /\ cfg = [o \in Owners |-> DefaultConfig(o)]
    /\ cfgCalls = [o \in Owners |-> 0]
    /\ cfgLast = CfgResult("finder", None, CfgNone, CfgNone, "ok")

ConfigFrozen == ConfigInit

\* The configuration calls, with adapters registered in between.
ConfigNext ==
    \/ \E name \in ConfigNames : AddSubfinder(name, 1, TRUE)
    \/ \E owner \in DirectOwners, field \in {"headers", "cookies"},
          key \in CfgKeys, value \in CfgValues :
          SetHeaderOrCookie(owner, field, key, value)
    \/ \E owner \in DirectOwners, key \in SettingKeys, value \in {CfgStr("v")} :
          SetConfig(owner, key, value)

\* ---------------------------------------------------------------- bulk fetch
\* Finder.__max_threads and Post.__max_threads: the size of each thread pool.
\* The code's value is 10; the model runs the same pools with a smaller size.
MaxThreads == 2
\* Most Finder.cancel_fetch calls made.
MaxCancels == 2

\* The posts handed to Finder.fetch_data: the number of images of each.
FetchImages == <<MaxThreads + 1, 1>>
FetchPosts == DOMAIN FetchImages
ImagesOf(p) == 1..FetchImages[p]

\* response.status_code of a transport call
Statuses == {200, 404}
\* `response.status_code >= 400`
IsFailure(status) == status >= 400
\* response.content of the request for image i
ContentOf(i) == i

StoreAtMut(d, index, content) == [d EXCEPT ![1] = content]
\* `self.data[index] = response.content`
StoreAt(d, index, content) == [d EXCEPT ![index] = content]

CancelGuardMut(executor, posts) == FALSE
\* `not self.__inner_executor or not self.__temp_posts`
CancelGuard(executor, posts) == ~executor \/ ~posts

\* A task that holds a worker thread of the Finder's pool.
RecRunning ==
    {"entry", "main", "mainflight", "mkexec", "reset", "submit", "wait"}
RecOver == {"done", "cancelled", "raised"}
RefOver == {"ok", "fail", "skipped", "cancelled"}

RecFinishedMut == RecRunning \cup RecOver
\* What wait(futures) takes as done: a task that ran to its end. A future that
\* shutdown(cancel_futures = True) cancelled in the queue is in state CANCELLED,
\* which wait counts neither at its start nor later (no worker takes it, so it
\* never becomes CANCELLED_AND_NOTIFIED).
RecFinished == {"done", "raised"}
RefFinished == {"ok", "fail", "skipped"}

\* The transport calls outstanding: <<p, i>> for image i of post p.
Outstanding ==
    {<<q, i>> : q \in {r \in FetchPosts : recTask[r] = "mainflight"}, i \in {1}}
        \cup UNION {{<<q, i>> : i \in {j \in ImagesOf(q) : refTask[q][j] = "inflight"}} :
                      q \in FetchPosts}

\* executor.shutdown(False, cancel_futures = True): queued tasks are cancelled,
\* running ones go on.
ShutdownTasks(tasks) ==
    [t \in DOMAIN tasks |-> IF tasks[t] = "queued" THEN "cancelled" ELSE tasks[t]]

\* Finder.fetch_data up to `if should_block: wait(futures)`: the leading
\* cancel_fetch() finds no executor and returns.
FetchBegin(only, block) ==
    /\ UNCHANGED notFetch
    /\ fetchPc = "idle"
    /\ cancelPc = "idle"
    /\ fetchArgs' = [only |-> only, block |-> block]
    /\ tempPosts' = TRUE
    /\ finderPool' = "live"
    /\ finderExecutor' = TRUE
    /\ recTask' = [p \in FetchPosts |-> "queued"]
    /\ fetchPc' = IF block THEN "waiting" ELSE "returned"
    /\ UNCHANGED <<postExecutor, postPool, shouldCancel, fetchedData, dataOf, refTask,
                   cancelPc, cancelIdx, cancelCount, cancelDone, cancelErr>>

\* wait(futures) of Finder.fetch_data returns: every record task ran to its end.
FetchWaitDone ==
    /\ UNCHANGED notFetch
    /\ fetchPc = "waiting"
    /\ \A p \in FetchPosts : recTask[p] \in RecFinished
    /\ fetchPc' = "returned"
    /\ UNCHANGED <<fetchArgs, finderExecutor, finderPool, tempPosts, recTask,
                   postExecutor, postPool, shouldCancel, fetchedData, dataOf, refTask,
                   cancelPc, cancelIdx, cancelCount, cancelDone, cancelErr>>

\* A worker of the Finder's pool takes the next queued _fetch_data_post task.
RecStart(p) ==
    /\ UNCHANGED notFetch
    /\ recTask[p] = "queued"
    /\ \A q \in FetchPosts : q < p => recTask[q] # "queued"
    /\ Cardinality({q \in FetchPosts : recTask[q] \in RecRunning}) < MaxThreads
    /\ recTask' = [recTask EXCEPT ![p] = "entry"]
    /\ UNCHANGED <<fetchPc, fetchArgs, finderExecutor, finderPool, tempPosts,
                   postExecutor, postPool, shouldCancel, fetchedData, dataOf, refTask,
                   cancelPc, cancelIdx, cancelCount, cancelDone, cancelErr>>

\* Post.fetch_data, lines 320-331: the early return and the reset of __data.
PostFetchEntry(p) ==
    /\ UNCHANGED notFetch
    /\ recTask[p] = "entry"
    /\ IF fetchedData[p] /\ Len(dataOf[p]) = FetchImages[p]
       THEN /\ recTask' = [recTask EXCEPT ![p] = "done"]
            /\ UNCHANGED dataOf
       ELSE IF fetchArgs.only
       THEN /\ recTask' = [recTask EXCEPT ![p] = "main"]
            /\ dataOf' = [dataOf EXCEPT ![p] = <<0>>]
       ELSE /\ recTask' = [recTask EXCEPT ![p] = "mkexec"]
            /\ dataOf' = [dataOf EXCEPT ![p] = [i \in ImagesOf(p) |-> 0]]
    /\ UNCHANGED <<fetchPc, fetchArgs, finderExecutor, finderPool, tempPosts,
                   postExecutor, postPool, shouldCancel, fetchedData, refTask,
                   cancelPc, cancelIdx, cancelCount, cancelDone, cancelErr>>

\* only_image: _request_data((0, self.image), session) in the record's own thread,
\* up to the start of session.get.
PostMainRequest(p) ==
    /\ UNCHANGED notFetch
    /\ recTask[p] = "main"
    /\ IF shouldCancel[p]
       THEN /\ recTask' = [recTask EXCEPT ![p] = "done"]
            /\ fetchedData' = [fetchedData EXCEPT ![p] = TRUE]
       ELSE /\ recTask' = [recTask EXCEPT ![p] = "mainflight"]
            /\ UNCHANGED fetchedData
    /\ UNCHANGED <<fetchPc, fetchArgs, finderExecutor, finderPool, tempPosts,
                   postExecutor, postPool, shouldCancel, dataOf, refTask,
                   cancelPc, cancelIdx, cancelCount, cancelDone, cancelErr>>

\* only_image: the response arrives; then `self.__fetched_data = True; return`.
PostMainResponse(p, status) ==
    /\ UNCHANGED notFetch
    /\ recTask[p] = "mainflight"
    /\ dataOf' = IF IsFailure(status) THEN dataOf
                 ELSE [dataOf EXCEPT ![p] = StoreAt(dataOf[p], 1, ContentOf(1))]
    /\ recTask' = [recTask EXCEPT ![p] = "done"]
    /\ fetchedData' = [fetchedData EXCEPT ![p] = TRUE]
    /\ UNCHANGED <<fetchPc, fetchArgs, finderExecutor, finderPool, tempPosts,
                   postExecutor, postPool, shouldCancel, refTask,
                   cancelPc, cancelIdx, cancelCount, cancelDone, cancelErr>>

\* Post.fetch_data, lines 337-338: the executor is created and stored.
PostMakeExecutor(p) ==
    /\ UNCHANGED notFetch
    /\ recTask[p] = "mkexec"
    /\ postPool' = [postPool EXCEPT ![p] = "live"]
    /\ postExecutor' = [postExecutor EXCEPT ![p] = TRUE]
    /\ recTask' = [recTask EXCEPT ![p] = "reset"]
    /\ UNCHANGED <<fetchPc, fetchArgs, finderExecutor, finderPool, tempPosts,
                   shouldCancel, fetchedData, dataOf, refTask,
                   cancelPc, cancelIdx, cancelCount, cancelDone, cancelErr>>

\* Post.fetch_data, line 339: `self.__should_cancel = False`
PostResetCancel(p) ==
    /\ UNCHANGED notFetch
    /\ recTask[p] = "reset"
    /\ shouldCancel' = [shouldCancel EXCEPT ![p] = FALSE]
    /\ recTask' = [recTask EXCEPT ![p] = "submit"]
    /\ UNCHANGED <<fetchPc, fetchArgs, finderExecutor, finderPool, tempPosts,
                   postExecutor, postPool, fetchedData, dataOf, refTask,
                   cancelPc, cancelIdx, cancelCount, cancelDone, cancelErr>>

\* Post.fetch_data, lines 344-352: one _request_data task per image is submitted
\* (submit raises RuntimeError on an executor already shut down); without
\* should_block, __fetched_data is set at once.
PostSubmit(p) ==
    /\ UNCHANGED notFetch
    /\ recTask[p] = "submit"
    /\ IF postPool[p] = "shutdown"
       THEN /\ recTask' = [recTask EXCEPT ![p] = "raised"]
            /\ UNCHANGED <<refTask, fetchedData>>
       ELSE /\ refTask' = [refTask EXCEPT ![p] = [i \in ImagesOf(p) |-> "queued"]]
            /\ IF fetchArgs.block
               THEN /\ recTask' = [recTask EXCEPT ![p] = "wait"]
                    /\ UNCHANGED fetchedData
               ELSE /\ recTask' = [recTask EXCEPT ![p] = "done"]
                    /\ fetchedData' = [fetchedData EXCEPT ![p] = TRUE]
    /\ UNCHANGED <<fetchPc, fetchArgs, finderExecutor, finderPool, tempPosts,
                   postExecutor, postPool, shouldCancel, dataOf,
                   cancelPc, cancelIdx, cancelCount, cancelDone, cancelErr>>

\* Post.fetch_data, lines 349-352: wait(futures) returns, `__fetched_data = True`.
PostWaitDone(p) ==
    /\ UNCHANGED notFetch
    /\ recTask[p] = "wait"
    /\ \A i \in ImagesOf(p) : refTask[p][i] \in RefFinished
    /\ recTask' = [recTask EXCEPT ![p] = "done"]
    /\ fetchedData' = [fetchedData EXCEPT ![p] = TRUE]
    /\ UNCHANGED <<fetchPc, fetchArgs, finderExecutor, finderPool, tempPosts,
                   postExecutor, postPool, shouldCancel, dataOf, refTask,
                   cancelPc, cancelIdx, cancelCount, cancelDone, cancelErr>>

\* A worker of the post's pool takes the next queued _request_data task and runs
\* it up to the start of session.get (or returns False on __should_cancel).
RefStart(p, i) ==
    /\ UNCHANGED notFetch
    /\ refTask[p][i] = "queued"
    /\ \A j \in ImagesOf(p) : j < i => refTask[p][j] # "queued"
    /\ Cardinality({j \in ImagesOf(p) : refTask[p][j] = "inflight"}) < MaxThreads
    /\ refTask' = [refTask EXCEPT ![p][i] =
                      IF shouldCancel[p] THEN "skipped" ELSE "inflight"]
    /\ UNCHANGED <<fetchPc, fetchArgs, finderExecutor, finderPool, tempPosts, recTask,
                   postExecutor, postPool, shouldCancel, fetchedData, dataOf,
                   cancelPc, cancelIdx, cancelCount, cancelDone, cancelErr>>

\* _request_data.inner_func after `await session.get(...)`.
RefResponse(p, i, status) ==
    /\ UNCHANGED notFetch
    /\ refTask[p][i] = "inflight"
    /\ IF IsFailure(status)
       THEN /\ refTask' = [refTask EXCEPT ![p][i] = "fail"]
            /\ UNCHANGED dataOf
       ELSE /\ refTask' = [refTask EXCEPT ![p][i] = "ok"]
            /\ dataOf' = [dataOf EXCEPT ![p] = StoreAt(dataOf[p], i, ContentOf(i))]
    /\ UNCHANGED <<fetchPc, fetchArgs, finderExecutor, finderPool, tempPosts, recTask,
                   postExecutor, postPool, shouldCancel, fetchedData,
                   cancelPc, cancelIdx, cancelCount, cancelDone, cancelErr>>

\* Finder.cancel_fetch, lines 421-428: the guard, the shutdown of the Finder's
\* executor, and the second look at __temp_posts.
CancelBegin ==
    /\ UNCHANGED notFetch
    /\ cancelPc = "idle"
    /\ ~cancelErr
    /\ cancelCount < MaxCancels
    /\ IF CancelGuard(finderExecutor, tempPosts)
       THEN /\ cancelCount' = cancelCount + 1
            /\ UNCHANGED <<finderExecutor, finderPool, recTask, cancelPc, cancelIdx,
                           cancelErr>>
       ELSE IF ~finderExecutor
       THEN /\ cancelErr' = TRUE
            /\ UNCHANGED <<finderExecutor, finderPool, recTask, cancelPc, cancelIdx,
                           cancelCount>>
       ELSE /\ finderPool' = "shutdown"
            /\ recTask' = ShutdownTasks(recTask)
            /\ finderExecutor' = FALSE
            /\ cancelPc' = "posts"
            /\ cancelIdx' = 1
            /\ UNCHANGED <<cancelCount, cancelErr>>
    /\ UNCHANGED <<fetchPc, fetchArgs, tempPosts, postExecutor, postPool, shouldCancel,
                   fetchedData, dataOf, refTask, cancelDone>>

\* Finder.cancel_fetch, lines 430-431: Post.cancel_fetch of the next post.
CancelPost ==
    /\ UNCHANGED notFetch
    /\ cancelPc = "posts"
    /\ LET p == cancelIdx
       IN /\ IF ~postExecutor[p]
             THEN UNCHANGED <<shouldCancel, refTask, postPool, postExecutor>>
             ELSE /\ shouldCancel' = [shouldCancel EXCEPT ![p] = TRUE]
                  /\ refTask' = [refTask EXCEPT ![p] = ShutdownTasks(refTask[p])]
                  /\ postPool' = [postPool EXCEPT ![p] = "shutdown"]
                  /\ postExecutor' = [postExecutor EXCEPT ![p] = FALSE]
          /\ IF p = Len(FetchImages)
             THEN cancelPc' = "del" /\ UNCHANGED cancelIdx
             ELSE cancelIdx' = p + 1 /\ UNCHANGED cancelPc
    /\ UNCHANGED <<fetchPc, fetchArgs, finderExecutor, finderPool, tempPosts, recTask,
                   fetchedData, dataOf, cancelCount, cancelDone, cancelErr>>

\* Finder.cancel_fetch, lines 433-434, and the return.
CancelEnd ==
    /\ UNCHANGED notFetch
    /\ cancelPc = "del"
    /\ tempPosts' = FALSE
    /\ cancelPc' = "idle"
    /\ cancelCount' = cancelCount + 1
    /\ cancelDone' = TRUE
    /\ UNCHANGED <<fetchPc, fetchArgs, finderExecutor, finderPool, recTask,
                   postExecutor, postPool, shouldCancel, fetchedData, dataOf, refTask,
                   cancelIdx, cancelErr>>

\* A Finder and the posts of a search, before any fetch.
FetchInit ==
    /\ fetchPc = "idle"
    /\ fetchArgs = [only |-> FALSE, block |-> FALSE]
    /\ finderExecutor = FALSE
    /\ finderPool = "absent"
    /\ tempPosts = FALSE
    /\ recTask = [p \in FetchPosts |-> "none"]
    /\ postExecutor = [p \in FetchPosts |-> FALSE]
    /\ postPool = [p \in FetchPosts |-> "absent"]
    /\ shouldCancel = [p \in FetchPosts |-> FALSE]
    /\ fetchedData = [p \in FetchPosts |-> FALSE]
    /\ dataOf = [p \in FetchPosts |-> <<>>]
    /\ refTask = [p \in FetchPosts |-> [i \in ImagesOf(p) |-> "none"]]
    /\ cancelPc = "idle"
    /\ cancelIdx = 1
    /\ cancelCount = 0
    /\ cancelDone = FALSE
    /\ cancelErr = FALSE

FetchFrozen == FetchInit

FetchNext ==
    \/ \E only \in BOOLEAN, block \in BOOLEAN : FetchBegin(only, block)
    \/ FetchWaitDone
    \/ \E p \in FetchPosts : RecStart(p)
    \/ \E p \in FetchPosts : PostFetchEntry(p)
    \/ \E p \in FetchPosts : PostMainRequest(p)
    \/ \E p \in FetchPosts, status \in Statuses : PostMainResponse(p, status)
    \/ \E p \in FetchPosts : PostMakeExecutor(p)
    \/ \E p \in FetchPosts : PostResetCancel(p)
    \/ \E p \in FetchPosts : PostSubmit(p)
    \/ \E p \in FetchPosts : PostWaitDone(p)
    \/ \E p \in FetchPosts : \E i \in ImagesOf(p) : RefStart(p, i)
    \/ \E p \in FetchPosts : \E i \in ImagesOf(p), status \in Statuses :
          RefResponse(p, i, status)
    \/ CancelBegin
    \/ CancelPost
    \/ CancelEnd

\* The caller invokes post.fetch_data again (same arguments) on a post whose
\* previous fetch is over, without `del post.data` in between.
PostRefetch(p) ==
    /\ UNCHANGED notFetch
    /\ fetchPc = "returned"
    /\ cancelPc = "idle"
    /\ \A q \in FetchPosts : recTask[q] \in RecOver
    /\ \A q \in FetchPosts : \A i \in ImagesOf(q) :
          refTask[q][i] \notin {"queued", "inflight"}
    /\ recTask[p] = "done"
    /\ recTask' = [recTask EXCEPT ![p] = "entry"]
    /\ UNCHANGED <<fetchPc, fetchArgs, finderExecutor, finderPool, tempPosts,
                   postExecutor, postPool, shouldCancel, fetchedData, dataOf, refTask,
                   cancelPc, cancelIdx, cancelCount, cancelDone, cancelErr>>

RefetchNext ==
    \/ FetchNext
    \/ \E p \in FetchPosts : PostRefetch(p)

\* ---------------------------------------------------------------- download to disk
\* Most posts in the list handed to download_fast_async.
MaxDlPosts == 2
\* Most images of one post of that list.
MaxDlImages == 2
\* `max_at_once = 10` of aiometer.amap
MaxAtOnce == 10

\* The lists handed to download_fast_async: the number of images of each post.
DlLists ==
    UNION {[1..n -> 0..MaxDlImages] : n \in 0..MaxDlPosts}

\* The file path os.path.join(directory, post.filenames[index]) of a post's image.
DlPath(p, index) == <<p, index>>

\* `response.status_code >= 400` in store_response
DlRejected(status) == status >= 400

\* A _download_and_safe task that amap has not started yet. index and response
\* are the variables of the coroutine the threads' lambda closes over (index
\* counts from 1 here, 0: not bound yet); got is the status each client.get gave,
\* respOf the image the response bound to `response` was requested for, and
\* written the files written: <<i, j>> for the content of image j written to
\* <directory>/<filenames[i]>.
NewTask ==
    [pc |-> "new", index |-> 0, response |-> 0, respOf |-> 0, threads |-> <<>>,
     paths |-> <<>>, got |-> <<>>, written |-> <<>>]

DlRunning(t) == t.pc \in {"loop", "await", "join"}

DlDone(ret) ==
    /\ dlPc' = "done"
    /\ dlRet' = ret

\* download_fast_async up to aiometer.amap.
DownloadBegin(isList, images) ==
    /\ UNCHANGED notDownload
    /\ dlPc \in {"idle", "done"}
    /\ dlIn' = [isList |-> isList, images |-> images]
    /\ dlEnd' = <<>>
    /\ IF ~isList
       THEN /\ DlDone(Raise("TypeError"))
            /\ dlTask' = <<>>
       ELSE /\ dlPc' = "running"
            /\ dlRet' = RetNone
            /\ dlTask' = [p \in DOMAIN images |-> NewTask]

\* amap starts the task of post p: at most max_at_once tasks run.
TaskStart(p) ==
    /\ UNCHANGED notDownload
    /\ dlPc = "running"
    /\ p \in DOMAIN dlTask
    /\ dlTask[p].pc = "new"
    /\ Cardinality({q \in DOMAIN dlTask : DlRunning(dlTask[q])}) < MaxAtOnce
    /\ dlTask' = [dlTask EXCEPT ![p].pc = "loop"]
    /\ UNCHANGED <<dlPc, dlIn, dlEnd, dlRet>>

\* `for index, image in enumerate(post.images)`: binds index and awaits
\* client.get, or leaves the loop for the joins.
TaskGet(p) ==
    /\ UNCHANGED notDownload
    /\ dlPc = "running"
    /\ p \in DOMAIN dlTask
    /\ dlTask[p].pc = "loop"
    /\ dlTask' = IF dlTask[p].index < dlIn.images[p]
                 THEN [dlTask EXCEPT ![p].pc = "await",
                                     ![p].index = dlTask[p].index + 1]
                 ELSE [dlTask EXCEPT ![p].pc = "join"]
    /\ UNCHANGED <<dlPc, dlIn, dlEnd, dlRet>>

\* client.get returns a response: it is bound to `response`, and the thread
\* whose target is the lambda over index and response is started.
TaskResponse(p, status) ==
    /\ UNCHANGED notDownload
    /\ dlPc = "running"
    /\ p \in DOMAIN dlTask
    /\ dlTask[p].pc = "await"
    /\ dlTask' = [dlTask EXCEPT ![p].pc = "loop",
                                ![p].response = status,
                                ![p].respOf = dlTask[p].index,
                                ![p].got = Append(@, status),
                                ![p].threads = Append(@, "started")]
    /\ UNCHANGED <<dlPc, dlIn, dlEnd, dlRet>>

\* client.get raises (a network failure): nothing catches it in
\* _download_and_safe, in amap or in download_fast_async.
TaskError(p) ==
    /\ UNCHANGED notDownload
    /\ dlPc = "running"
    /\ p \in DOMAIN dlTask
    /\ dlTask[p].pc = "await"
    /\ DlDone(Raise("TransportError"))
    /\ dlTask' = [dlTask EXCEPT ![p].pc = "raised"]
    /\ UNCHANGED <<dlIn, dlEnd>>

\* Thread k of post p runs its lambda: store_response with the index and the
\* response the coroutine's variables hold at that moment.
ThreadRun(p, k) ==
    /\ UNCHANGED notDownload
    /\ dlPc = "running"
    /\ p \in DOMAIN dlTask
    /\ k \in DOMAIN dlTask[p].threads
    /\ dlTask[p].threads[k] = "started"
    /\ LET t == dlTask[p]
       IN dlTask' = [dlTask EXCEPT
              ![p].threads[k] = "ran",
              ![p].written = IF DlRejected(t.response)
                             THEN @
                             ELSE Append(@, <<t.index, t.respOf>>),
              ![p].paths = IF DlRejected(t.response)
                           THEN @
                           ELSE Append(@, DlPath(p, t.index))]
    /\ UNCHANGED <<dlPc, dlIn, dlEnd, dlRet>>

\* Every thread joined: the task returns its end_paths and
\* `async for result in results: end_paths += result` takes them.
TaskJoin(p) ==
    /\ UNCHANGED notDownload
    /\ dlPc = "running"
    /\ p \in DOMAIN dlTask
    /\ dlTask[p].pc = "join"
    /\ \A k \in DOMAIN dlTask[p].threads : dlTask[p].threads[k] = "ran"
    /\ dlTask' = [dlTask EXCEPT ![p].pc = "done"]
    /\ dlEnd' = dlEnd \o dlTask[p].paths
    /\ UNCHANGED <<dlPc, dlIn, dlRet>>

\* `return end_paths`
DownloadEnd ==
    /\ UNCHANGED notDownload
    /\ dlPc = "running"
    /\ \A p \in DOMAIN dlTask : dlTask[p].pc = "done"
    /\ DlDone(RetList(dlEnd))
    /\ UNCHANGED <<dlIn, dlTask, dlEnd>>

DownloadInit ==
    /\ dlPc = "idle"
    /\ dlIn = [isList |-> TRUE, images |-> <<>>]
    /\ dlTask = <<>>
    /\ dlEnd = <<>>
    /\ dlRet = RetNone

DownloadFrozen == DownloadInit

DownloadNext ==
    \/ \E isList \in BOOLEAN, images \in DlLists : DownloadBegin(isList, images)
    \/ \E p \in 1..MaxDlPosts : TaskStart(p)
    \/ \E p \in 1..MaxDlPosts : TaskGet(p)
    \/ \E p \in 1..MaxDlPosts, status \in Statuses : TaskResponse(p, status)
    \/ \E p \in 1..MaxDlPosts : TaskError(p)
    \/ \E p \in 1..MaxDlPosts, k \in 1..MaxDlImages : ThreadRun(p, k)
    \/ \E p \in 1..MaxDlPosts : TaskJoin(p)
    \/ DownloadEnd

\* ---------------------------------------------------------------- adapter search
\* Most posts the remote source holds.
MaxSource == 2
\* Largest limit argument.
MaxLimit == 2
\* Posts per request: post_list(limit = 100), search_illust (30), search (1000).
DanbooruPageSize == 100
PixivPageSize == 30
Rule34PageSize == 1000
\* `self.__page = 1` of DanbooruFinder.__init__
DanbooruFirstPage == 1

\* page = None
NoPage == -1

\* The posts of a source, newest first: their tags, and whether the raw post
\* has md5 and file_url (_post_is_valid).
RawKinds ==
    {[tags |-> t, valid |-> TRUE] : t \in {{"a"}, {"b"}, {"a", "b", "c"}}}
        \cup {[tags |-> {"a"}, valid |-> FALSE]}
Sources ==
    UNION {{[i \in 1..n |-> [id |-> n + 1 - i, tags |-> k[i].tags, valid |-> k[i].valid]] :
              k \in [1..n -> RawKinds]} : n \in 0..MaxSource}

\* parse_tags(tags) of the tag strings searched for (no parentheses: the
\* words between the spaces).
Queries ==
    {<<"a">>, <<"a", "b">>, <<"a", "or", "b">>, <<"a", "b", "c">>,
     <<"short", "a", "b">>, <<"a", "b", "c", "c">>}

\* `"or" in tag`, for the words of Queries
ContainsOr(tag) == tag \in {"or", "short"}
\* tag.startswith("rating:"), for the words of Queries
IsRatingTag(tag) == tag \in {"rating:s"}

\* list_ref[:n]
Take(l, n) == SubSeq(l, 1, IF n < Len(l) THEN n ELSE Len(l))

\* What the source answers to a request for the posts with all of `tags`, for
\* the page with index `page` (from 0) of `size` posts.
SourcePage(source, tags, size, page) ==
    LET matches == SelectSeq(source, LAMBDA r : Range(tags) \subseteq r.tags)
        first == page * size + 1
        last == IF (page + 1) * size < Len(matches) THEN (page + 1) * size
                ELSE Len(matches)
    IN IF page < 0 THEN <<>> ELSE SubSeq(matches, first, last)

\* list.sort(key = lambda x: x.post_id)
RECURSIVE SortByPostId(_)
SortByPostId(l) ==
    IF l = <<>> THEN <<>>
    ELSE LET rest == SortByPostId(Tail(l))
             lower == SelectSeq(rest, LAMBDA r : r.id < Head(l).id)
             upper == SelectSeq(rest, LAMBDA r : r.id >= Head(l).id)
         IN lower \o <<Head(l)>> \o upper

\* The while loop of DanbooruFinder._get_all_posts.
RECURSIVE DanbooruLoop(_, _, _, _, _)
DanbooruLoop(source, tags, limit, page, acc) ==
    LET raw == SourcePage(source, tags, DanbooruPageSize, page - 1)
        posts == acc \o SelectSeq(raw, LAMBDA r : r.valid)
    IN IF Len(posts) >= limit \/ Len(raw) # DanbooruPageSize
       THEN posts
       ELSE DanbooruLoop(source, tags, limit, page + 1, posts)

\* DanbooruFinder._get_all_posts
DanbooruGetAllPosts(source, tags, limit, page) ==
    LET current == SortByPostId(DanbooruLoop(source, tags, limit, page, <<>>))
    IN IF Len(current) > limit THEN Take(current, limit) ELSE current

\* utils.get(list_ref, index, None), index counted from 1 here; Python's
\* list_ref[-1] is the last element.
GetTag(tags, index) ==
    IF index > Len(tags) THEN ""
    ELSE IF index = 0 THEN tags[Len(tags)]
    ELSE tags[index]

\* combinations(parsed_tags, 2)
Combinations2(tags) ==
    LET RECURSIVE InOrder(_, _)
        InOrder(i, j) ==
            IF i >= Len(tags) THEN <<>>
            ELSE IF j > Len(tags) THEN InOrder(i + 1, i + 2)
            ELSE <<(<<tags[i], tags[j]>>)>> \o InOrder(i, j + 1)
    IN InOrder(1, 2)

\* The `for combination in total_combinations` loop of _get_multiple_tags:
\* the posts of every combination, or "empty" when one of them has none.
RECURSIVE DanbooruCombine(_, _, _, _, _)
DanbooruCombine(source, combos, limit, page, total) ==
    IF combos = <<>> THEN [empty |-> FALSE, posts |-> total]
    ELSE LET current == DanbooruGetAllPosts(source, Head(combos), limit, page)
         IN IF current = <<>>
            THEN [empty |-> TRUE, posts |-> <<>>]
            ELSE DanbooruCombine(source, Tail(combos), limit, page, total \o current)

\* DanbooruFinder._get_multiple_tags of a query of one word (prev_tags,
\* next_tags of the "or" branch): "" is not searched.
DanbooruGetOne(source, tag, limit, page) ==
    IF tag = "" THEN <<>> ELSE DanbooruGetAllPosts(source, <<tag>>, limit, page)

\* DanbooruFinder._get_multiple_tags. A word that contains "or" and is not "or"
\* reads next_tags before it is bound; for an even number of words
\* range(num_of_tags, step = 2) is a TypeError (range takes no keywords).
DanbooruGetMultipleTags(source, tags, limit, page) ==
    LET n == Len(tags)
        ors == {i \in DOMAIN tags : ContainsOr(tags[i])}
        index == CHOOSE i \in ors : \A j \in ors : i <= j
        total == DanbooruCombine(source, Combinations2(tags), limit, page, <<>>)
        filtered == SelectSeq(total.posts,
                        LAMBDA r : \A i \in DOMAIN tags :
                                      tags[i] \in r.tags \/ IsRatingTag(tags[i]))
    IN IF n <= 2
       THEN RetList(DanbooruGetAllPosts(source, tags, limit, page))
       ELSE IF ors # {}
       THEN IF tags[index] = "or"
            THEN RetList(DanbooruGetOne(source, GetTag(tags, index - 1), limit, page)
                         \o DanbooruGetOne(source, GetTag(tags, index + 1), limit, page))
            ELSE Raise("UnboundLocalError")
       ELSE IF n % 2 = 0
       THEN Raise("TypeError")
       ELSE IF total.empty
       THEN RetList(<<>>)
       ELSE IF Len(filtered) > limit
       THEN RetList(Take(filtered, limit))
       ELSE RetList(filtered)

\* The while loop of PixivFinder._get_all_posts: the posts, and `overflowed`.
RECURSIVE PixivLoop(_, _, _, _, _)
PixivLoop(source, tags, limit, page, acc) ==
    LET raw == SourcePage(source, tags, PixivPageSize, page)
        posts == acc \o raw
    IN IF Len(posts) > limit
       THEN [overflowed |-> TRUE, posts |-> posts]
       ELSE IF Len(raw) # PixivPageSize
       THEN [overflowed |-> FALSE, posts |-> posts]
       ELSE PixivLoop(source, tags, limit, page + 1, posts)

\* PixivFinder._get_all_posts
PixivGetAllPosts(source, tags, limit, page) ==
    LET r == PixivLoop(source, tags, limit, IF page = NoPage THEN 0 ELSE page, <<>>)
    IN IF r.overflowed THEN Take(r.posts, limit) ELSE r.posts

\* The while loop of Rule34Finder._get_all_posts: the posts, and `oversized`.
RECURSIVE Rule34Loop(_, _, _, _, _)
Rule34Loop(source, tags, limit, page, acc) ==
    LET raw == SourcePage(source, tags, Rule34PageSize, page)
        posts == acc \o raw
    IN IF Len(posts) >= limit
       THEN [oversized |-> TRUE, posts |-> posts]
       ELSE IF Len(raw) # Rule34PageSize
       THEN [oversized |-> FALSE, posts |-> posts]
       ELSE Rule34Loop(source, tags, limit, page + 1, posts)

\* Rule34Finder._get_all_posts
Rule34GetAllPosts(source, tags, limit, page) ==
    LET r == Rule34Loop(source, tags, limit, IF page = NoPage THEN 0 ELSE page, <<>>)
    IN IF r.oversized THEN Take(r.posts, limit) ELSE r.posts

\* No search is running and the result of the last one was taken.
NoSearch == [adapter |-> "", source |-> <<>>, tags |-> <<>>, limit |-> 0,
             page |-> -1]

SearchCalled(adapter, source, tags, limit, page) ==
    /\ srPc = "idle"
    /\ srPc' = "done"
    /\ srIn' = [adapter |-> adapter, source |-> source, tags |-> tags,
                limit |-> limit, page |-> page]

\* DanbooruFinder.search_posts(tags, limit = limit, page = page), tags a str
DanbooruSearch(source, tags, limit, page) ==
    /\ UNCHANGED notSearch
    /\ SearchCalled("danbooru", source, tags, limit, page)
    /\ danPage' = IF page = NoPage THEN danPage ELSE page
    /\ srRet' = DanbooruGetMultipleTags(source, tags, limit, danPage')

\* PixivFinder.search_posts(tags, limit = limit, page = page)
PixivSearch(source, tags, limit, page) ==
    /\ UNCHANGED notSearch
    /\ SearchCalled("pixiv", source, tags, limit, page)
    /\ srRet' = RetList(PixivGetAllPosts(source, tags, limit, page))
    /\ UNCHANGED danPage

\* Rule34Finder.search_posts(tags, limit = limit, page = page)
Rule34Search(source, tags, limit, page) ==
    /\ UNCHANGED notSearch
    /\ SearchCalled("rule34", source, tags, limit, page)
    /\ srRet' = RetList(Rule34GetAllPosts(source, tags, limit, page))
    /\ UNCHANGED danPage

\* The caller is done with the list: the adapter keeps only __page.
SearchTaken ==
    /\ UNCHANGED notSearch
    /\ srPc = "done"
    /\ srPc' = "idle"
    /\ srIn' = NoSearch
    /\ srRet' = RetNone
    /\ UNCHANGED danPage

SearchInit ==
    /\ srPc = "idle"
    /\ srIn = NoSearch
    /\ srRet = RetNone
    /\ danPage = DanbooruFirstPage

SearchFrozen == SearchInit

SearchNext ==
    \/ srPc = "idle" /\ \E source \in Sources, tags \in Queries, limit \in 0..MaxLimit,
             page \in {NoPage, 1, 2} : DanbooruSearch(source, tags, limit, page)
    \/ srPc = "idle" /\ \E source \in Sources, tags \in Queries, limit \in 0..MaxLimit,
             page \in {NoPage, 0, 1} : PixivSearch(source, tags, limit, page)
    \/ srPc = "idle" /\ \E source \in Sources, tags \in Queries, limit \in 0..MaxLimit,
             page \in {NoPage, 0, 1} : Rule34Search(source, tags, limit, page)
    \/ SearchTaken

\* ---------------------------------------------------------------- concurrent callers
\* Threads that call Finder.cancel_fetch or Finder.fetch_data on one Finder.
MaxCallers == 2
Callers == 1..MaxCallers

\* The call of thread t raises e.
CallerRaise(t, e) ==
    /\ ccErr' = [ccErr EXCEPT ![t] = e]
    /\ ccPc' = [ccPc EXCEPT ![t] = "idle"]

\* cancel_fetch of thread t returns: to its caller, or into fetch_data, whose
\* first statement it is.
CallerReturned(t) ==
    ccPc' = [ccPc EXCEPT ![t] = IF ccOp[t] = "fetch" THEN "f1" ELSE "idle"]

\* Thread t calls cancel_fetch, or fetch_data (non-empty list, should_block =
\* False), which begins with self.cancel_fetch().
CallerBegin(t, op) ==
    /\ UNCHANGED notCaller
    /\ ccPc[t] = "idle"
    /\ ccOp' = [ccOp EXCEPT ![t] = op]
    /\ ccErr' = [ccErr EXCEPT ![t] = ""]
    /\ ccPc' = [ccPc EXCEPT ![t] = "c1"]
    /\ UNCHANGED <<ccExecutor, ccPosts, ccPostExec, ccOwn>>

\* cancel_fetch, line 421: `not self.__inner_executor`
CancelGuardExecutor(t) ==
    /\ UNCHANGED notCaller
    /\ ccPc[t] = "c1"
    /\ IF ccExecutor = 0 THEN CallerReturned(t)
       ELSE ccPc' = [ccPc EXCEPT ![t] = "c1b"]
    /\ UNCHANGED <<ccExecutor, ccPosts, ccPostExec, ccOwn, ccOp, ccErr>>

\* cancel_fetch, line 421: `or not self.__temp_posts`
CancelGuardPosts(t) ==
    /\ UNCHANGED notCaller
    /\ ccPc[t] = "c1b"
    /\ IF ccPosts = "deleted" THEN CallerRaise(t, "AttributeError")
       ELSE IF ccPosts = "none" THEN CallerReturned(t) /\ UNCHANGED ccErr
       ELSE ccPc' = [ccPc EXCEPT ![t] = "c2"] /\ UNCHANGED ccErr
    /\ UNCHANGED <<ccExecutor, ccPosts, ccPostExec, ccOwn, ccOp>>

\* cancel_fetch, line 424: self.__inner_executor.shutdown(False, cancel_futures = True)
CancelShutdown(t) ==
    /\ UNCHANGED notCaller
    /\ ccPc[t] = "c2"
    /\ IF ccExecutor = 0
       THEN CallerRaise(t, "AttributeError") /\ UNCHANGED ccOwn
       ELSE /\ ccOwn' = [ccOwn EXCEPT ![ccExecutor] = "shut"]
            /\ ccPc' = [ccPc EXCEPT ![t] = "c3"]
            /\ UNCHANGED ccErr
    /\ UNCHANGED <<ccExecutor, ccPosts, ccPostExec, ccOp>>

\* cancel_fetch, line 425: self.__inner_executor = None
CancelClearExecutor(t) ==
    /\ UNCHANGED notCaller
    /\ ccPc[t] = "c3"
    /\ ccExecutor' = 0
    /\ ccPc' = [ccPc EXCEPT ![t] = "c4"]
    /\ UNCHANGED <<ccPosts, ccPostExec, ccOwn, ccOp, ccErr>>

\* cancel_fetch, lines 427-428: `if (not self.__temp_posts): return`
CancelCheckPosts(t) ==
    /\ UNCHANGED notCaller
    /\ ccPc[t] = "c4"
    /\ IF ccPosts = "deleted" THEN CallerRaise(t, "AttributeError")
       ELSE IF ccPosts = "none" THEN CallerReturned(t) /\ UNCHANGED ccErr
       ELSE ccPc' = [ccPc EXCEPT ![t] = "c5"] /\ UNCHANGED ccErr
    /\ UNCHANGED <<ccExecutor, ccPosts, ccPostExec, ccOwn, ccOp>>

\* cancel_fetch, line 430: `for post in self.__temp_posts`
CancelIterPosts(t) ==
    /\ UNCHANGED notCaller
    /\ ccPc[t] = "c5"
    /\ IF ccPosts = "deleted" THEN CallerRaise(t, "AttributeError")
       ELSE IF ccPosts = "none" THEN CallerRaise(t, "TypeError")
       ELSE ccPc' = [ccPc EXCEPT ![t] = "p1"] /\ UNCHANGED ccErr
    /\ UNCHANGED <<ccExecutor, ccPosts, ccPostExec, ccOwn, ccOp>>

\* Post.cancel_fetch, lines 355-356: `if not self.__inner_executor: return`
PostCancelGuard(t) ==
    /\ UNCHANGED notCaller
    /\ ccPc[t] = "p1"
    /\ ccPc' = [ccPc EXCEPT ![t] = IF ccPostExec = "none" THEN "c6" ELSE "p2"]
    /\ UNCHANGED <<ccExecutor, ccPosts, ccPostExec, ccOwn, ccOp, ccErr>>

\* Post.cancel_fetch, lines 358-359: __should_cancel = True, then
\* self.__inner_executor.shutdown(...)
PostCancelShutdown(t) ==
    /\ UNCHANGED notCaller
    /\ ccPc[t] = "p2"
    /\ IF ccPostExec = "none"
       THEN CallerRaise(t, "AttributeError")
       ELSE ccPc' = [ccPc EXCEPT ![t] = "p3"] /\ UNCHANGED ccErr
    /\ UNCHANGED <<ccExecutor, ccPosts, ccPostExec, ccOwn, ccOp>>

\* Post.cancel_fetch, line 360: self.__inner_executor = None
PostCancelClear(t) ==
    /\ UNCHANGED notCaller
    /\ ccPc[t] = "p3"
    /\ ccPostExec' = "none"
    /\ ccPc' = [ccPc EXCEPT ![t] = "c6"]
    /\ UNCHANGED <<ccExecutor, ccPosts, ccOwn, ccOp, ccErr>>

\* cancel_fetch, line 433: del self.__temp_posts
CancelDelPosts(t) ==
    /\ UNCHANGED notCaller
    /\ ccPc[t] = "c6"
    /\ IF ccPosts = "deleted"
       THEN CallerRaise(t, "AttributeError") /\ UNCHANGED ccPosts
       ELSE /\ ccPosts' = "deleted"
            /\ ccPc' = [ccPc EXCEPT ![t] = "c7"]
            /\ UNCHANGED ccErr
    /\ UNCHANGED <<ccExecutor, ccPostExec, ccOwn, ccOp>>

\* cancel_fetch, line 434: self.__temp_posts = None, and the return
CancelSetNone(t) ==
    /\ UNCHANGED notCaller
    /\ ccPc[t] = "c7"
    /\ ccPosts' = "none"
    /\ CallerReturned(t)
    /\ UNCHANGED <<ccExecutor, ccPostExec, ccOwn, ccOp, ccErr>>

\* fetch_data, line 404: self.__temp_posts = posts.copy()
FetchSetPosts(t) ==
    /\ UNCHANGED notCaller
    /\ ccPc[t] = "f1"
    /\ ccPosts' = "list"
    /\ ccPc' = [ccPc EXCEPT ![t] = "f2"]
    /\ UNCHANGED <<ccExecutor, ccPostExec, ccOwn, ccOp, ccErr>>

\* fetch_data, lines 408-410: executor = ThreadPoolExecutor(...);
\* self.__inner_executor = executor
FetchSetExecutor(t) ==
    /\ UNCHANGED notCaller
    /\ ccPc[t] = "f2"
    /\ ccOwn' = [ccOwn EXCEPT ![t] = "live"]
    /\ ccExecutor' = t
    /\ ccPc' = [ccPc EXCEPT ![t] = "f3"]
    /\ UNCHANGED <<ccPosts, ccPostExec, ccOp, ccErr>>

\* fetch_data, lines 412-415 and the return: executor.submit raises RuntimeError
\* on an executor already shut down; else the record task runs and
\* Post.fetch_data stores the post's executor.
FetchSubmit(t) ==
    /\ UNCHANGED notCaller
    /\ ccPc[t] = "f3"
    /\ IF ccOwn[t] = "shut"
       THEN CallerRaise(t, "RuntimeError") /\ UNCHANGED ccPostExec
       ELSE /\ ccPostExec' = "live"
            /\ ccPc' = [ccPc EXCEPT ![t] = "idle"]
            /\ UNCHANGED ccErr
    /\ UNCHANGED <<ccExecutor, ccPosts, ccOwn, ccOp>>

\* Finder.__init__ and Post.__init__
CallerInit ==
    /\ ccExecutor = 0
    /\ ccPosts = "none"
    /\ ccPostExec = "none"
    /\ ccOwn = [t \in Callers |-> "none"]
    /\ ccPc = [t \in Callers |-> "idle"]
    /\ ccOp = [t \in Callers |-> "none"]
    /\ ccErr = [t \in Callers |-> ""]

CallerFrozen == CallerInit

CallerNext ==
    \/ \E t \in Callers, op \in {"cancel", "fetch"} : CallerBegin(t, op)
    \/ \E t \in Callers : CancelGuardExecutor(t)
    \/ \E t \in Callers : CancelGuardPosts(t)
    \/ \E t \in Callers : CancelShutdown(t)
    \/ \E t \in Callers : CancelClearExecutor(t)
    \/ \E t \in Callers : CancelCheckPosts(t)
    \/ \E t \in Callers : CancelIterPosts(t)
    \/ \E t \in Callers : PostCancelGuard(t)
    \/ \E t \in Callers : PostCancelShutdown(t)
    \/ \E t \in Callers : PostCancelClear(t)
    \/ \E t \in Callers : CancelDelPosts(t)
    \/ \E t \in Callers : CancelSetNone(t)
    \/ \E t \in Callers : FetchSetPosts(t)
    \/ \E t \in Callers : FetchSetExecutor(t)
    \/ \E t \in Callers : FetchSubmit(t)

\* ---------------------------------------------------------------- retry loop
\* The loop of _get_all_posts of the pybooru adapters, with a source that may
\* answer a request with posts, with HTTP 410, with a KeyError or with another
\* HTTP error.
\* `while (current_size == 100)`, `while (previous_size == 100)`
BooruPageSize == 100
\* self.__MAX_RETRIES = 10
KonachanMaxRetries == 10
\* Most full pages a limit asks for.
MaxRetryPages == 2

RetryNames == {"danbooru", "yandere", "konachan"}
RetryLimits == {1} \cup {k * BooruPageSize : k \in 1..MaxRetryPages}
\* len(raw_posts) of an answer: a short page or a full one.
RetrySizes == {1, BooruPageSize}

\* `limit = ...` of the post_list call: Yandere asks for `limit`, the others
\* for 100.
RequestLimit(name, limit) == IF name = "yandere" THEN limit ELSE BooruPageSize

\* The return after the loop: at most `limit` posts.
RetryReturn(count) ==
    /\ rtPc' = "returned"
    /\ rtRet' = IF count > rtLimit THEN rtLimit ELSE count

\* search_posts -> _get_all_posts up to the first post_list call.
RetryCall(name, limit) ==
    /\ UNCHANGED notRetry
    /\ rtPc = "idle"
    /\ rtName' = name
    /\ rtLimit' = limit
    /\ rtCount' = 0
    /\ rtPc' = "request"
    /\ UNCHANGED <<rtRetries, rtRet>>

\* post_list answers n posts: they are added, and the loop goes on while the
\* page was full and the limit is not reached.
RetryAnswerPosts(n) ==
    /\ UNCHANGED notRetry
    /\ rtPc = "request"
    /\ n <= RequestLimit(rtName, rtLimit)
    /\ rtCount' = rtCount + n
    /\ IF rtCount + n >= rtLimit \/ n # BooruPageSize
       THEN RetryReturn(rtCount + n)
       ELSE UNCHANGED <<rtPc, rtRet>>
    /\ UNCHANGED <<rtName, rtLimit, rtRetries>>

\* post_list raises KeyError, or PybooruHTTPError with 410 in its message: break.
RetryAnswerBreak ==
    /\ UNCHANGED notRetry
    /\ rtPc = "request"
    /\ RetryReturn(rtCount)
    /\ UNCHANGED <<rtName, rtLimit, rtCount, rtRetries>>

\* post_list raises another PybooruHTTPError: the loop sleeps.
RetryAnswerError ==
    /\ UNCHANGED notRetry
    /\ rtPc = "request"
    /\ rtPc' = "sleep"
    /\ UNCHANGED <<rtName, rtLimit, rtCount, rtRetries, rtRet>>

\* After the sleep: `continue` (Danbooru, Yandere); Konachan counts the retry in
\* __retries and breaks at __MAX_RETRIES.
RetryContinue ==
    /\ UNCHANGED notRetry
    /\ rtPc = "sleep"
    /\ IF rtName = "konachan"
       THEN IF rtRetries >= KonachanMaxRetries
            THEN rtRetries' = 0 /\ RetryReturn(rtCount)
            ELSE rtRetries' = rtRetries + 1 /\ rtPc' = "request" /\ UNCHANGED rtRet
       ELSE rtPc' = "request" /\ UNCHANGED <<rtRetries, rtRet>>
    /\ UNCHANGED <<rtName, rtLimit, rtCount>>

\* The caller takes the list.
RetryTaken ==
    /\ UNCHANGED notRetry
    /\ rtPc = "returned"
    /\ rtPc' = "idle"
    /\ UNCHANGED <<rtName, rtLimit, rtCount, rtRetries, rtRet>>

\* KonachanFinder.__init__ (self.__retries = 0), before any search
RetryInit ==
    /\ rtPc = "idle"
    /\ rtName = "danbooru"
    /\ rtLimit = 1
    /\ rtCount = 0
    /\ rtRetries = 0
    /\ rtRet = 0

RetryFrozen == RetryInit

RetryNext ==
    \/ \E name \in RetryNames, limit \in RetryLimits : RetryCall(name, limit)
    \/ \E n \in RetrySizes : RetryAnswerPosts(n)
    \/ RetryAnswerBreak
    \/ RetryAnswerError
    \/ RetryContinue
    \/ RetryTaken

\* ---------------------------------------------------------------- specifications
AggSpecInit == AggInit /\ FilterFrozen /\ PostFrozen /\ FetchFrozen /\ ConfigFrozen /\ DownloadFrozen /\ SearchFrozen /\ CallerFrozen /\ RetryFrozen
SpecAgg == AggSpecInit /\ [][AggNext]_vars
SpecScoped == AggSpecInit /\ [][ScopedNext]_vars
SpecAsync == AggSpecInit /\ [][AsyncNext]_vars
SpecChildren == AggSpecInit /\ [][ChildrenNext]_vars

FilterSpecInit == FilterInit /\ AggFrozen /\ PostFrozen /\ FetchFrozen /\ ConfigFrozen /\ DownloadFrozen /\ SearchFrozen /\ CallerFrozen /\ RetryFrozen
SpecFilter == FilterSpecInit /\ [][FilterNext]_vars

PostSpecInit == PostInit /\ AggFrozen /\ FilterFrozen /\ FetchFrozen /\ ConfigFrozen /\ DownloadFrozen /\ SearchFrozen /\ CallerFrozen /\ RetryFrozen
SpecPost == PostSpecInit /\ [][PostNext]_vars

FetchSpecInit == FetchInit /\ AggFrozen /\ FilterFrozen /\ PostFrozen /\ ConfigFrozen /\ DownloadFrozen /\ SearchFrozen /\ CallerFrozen /\ RetryFrozen
SpecFetch == FetchSpecInit /\ [][FetchNext]_vars
SpecRefetch == FetchSpecInit /\ [][RefetchNext]_vars

ConfigSpecInit == ConfigInit /\ AggInit /\ FilterFrozen /\ PostFrozen /\ FetchFrozen /\ DownloadFrozen /\ SearchFrozen /\ CallerFrozen /\ RetryFrozen
SpecConfig == ConfigSpecInit /\ [][ConfigNext]_vars

DownloadSpecInit ==
    /\ DownloadInit /\ AggFrozen /\ FilterFrozen /\ PostFrozen /\ FetchFrozen
    /\ ConfigFrozen /\ SearchFrozen /\ CallerFrozen /\ RetryFrozen
SpecDownload == DownloadSpecInit /\ [][DownloadNext]_vars

SearchSpecInit ==
    /\ SearchInit /\ AggFrozen /\ FilterFrozen /\ PostFrozen /\ FetchFrozen
    /\ ConfigFrozen /\ DownloadFrozen /\ CallerFrozen /\ RetryFrozen
SpecSearch == SearchSpecInit /\ [][SearchNext]_vars

CallerSpecInit ==
    /\ CallerInit /\ AggFrozen /\ FilterFrozen /\ PostFrozen /\ FetchFrozen
    /\ ConfigFrozen /\ DownloadFrozen /\ SearchFrozen /\ RetryFrozen
SpecCaller == CallerSpecInit /\ [][CallerNext]_vars

RetrySpecInit ==
    /\ RetryInit /\ AggFrozen /\ FilterFrozen /\ PostFrozen /\ FetchFrozen
    /\ ConfigFrozen /\ DownloadFrozen /\ SearchFrozen /\ CallerFrozen
\* The thread that runs the search keeps running, and the source answers every
\* request one way or another.
SpecRetry == RetrySpecInit /\ [][RetryNext]_vars /\ WF_vars(RetryNext)

\* C12: a scoped operation (search_posts, search_posts_async, get_post,
\* search_comments, get_comment, get_notes, post_get_parent, post_get_children,
\* set_tag_alias) called with a name that is not registered raises ValueError at
\* once: no adapter is queried and neither the adapter map nor the alias table
\* changes.
C12_UnknownNameFails ==
    [][(AggIdle /\ callClient' # None /\ ~HasSubfinder(callClient')) =>
          /\ callPc' = "done"
          /\ callRet' = Raise("ValueError")
          /\ callLog' = <<>>
          /\ clients' = clients
          /\ aliases' = aliases]_vars

\* C12 witness: with an adapter registered, a scoped call named another adapter
\* and raised ValueError.
C12_Witness ==
    /\ callPc = "done"
    /\ callOp \in ScopedOps \cup {"set_tag_alias", "search_posts_async"}
    /\ callClient # None
    /\ clients # <<>>
    /\ ~HasSubfinder(callClient)
    /\ callRet = Raise("ValueError")

\* ---------------------------------------------------------------- claims: configuration
\* A step of a configuration call on `owner` that returned without raising.
CfgDone(owner, op) ==
    /\ cfgLast' # cfgLast
    /\ cfgLast'.owner = owner
    /\ cfgLast'.op = op
    /\ cfgLast'.ret = "ok"

\* C13 (the claim as stated): after Finder.configuration.set_header(k, v) or
\* set_cookie(k, v), every registered adapter holds k = v in the headers
\* (cookies) of its own configuration.
C13_HeaderIsBroadcast ==
    [][/\ CfgDone("finder", "set_header") =>
            \A o \in ConfigNames :
                HasSubfinder(o) => EntryOf(cfg'[o].headers, cfgLast'.key) = cfgLast'.value
       /\ CfgDone("finder", "set_cookie") =>
            \A o \in ConfigNames :
                HasSubfinder(o) => EntryOf(cfg'[o].cookies, cfgLast'.key) = cfgLast'.value]_vars

\* The configuration call of this step is one the claim says must raise.
MustRaise ==
    LET l == cfgLast'
    IN \/ /\ l.op = "set_config"
          /\ \/ l.key.v \in {"cookies", "headers"}
             \/ \A i \in DOMAIN cfg[l.owner].settings :
                    cfg[l.owner].settings[i].key # l.key.v
       \/ /\ l.op \in {"set_header", "set_cookie"}
          /\ \/ l.key.t \notin {"str", "bytes"}
             \/ l.value.t \notin {"str", "bytes"}

\* C18: set_config with key "cookies", "headers" or a key that is not a setting
\* raises, and set_header / set_cookie with a key or value that is neither str
\* nor bytes raises; no stored value changes and no callback is invoked.
C18_ConfigErrorsFailFast ==
    [][(cfgLast' # cfgLast /\ MustRaise) =>
          /\ cfgLast'.ret \in {"ValueError", "TypeError"}
          /\ cfg' = cfg
          /\ cfgCalls' = cfgCalls]_vars

\* C18 witness: on a configuration with a callback, after a header was set, a
\* set_header with an int value raised and the header kept its value.
C18_Witness ==
    /\ cfgLast.owner = "danbooru"
    /\ cfgLast.op = "set_header"
    /\ cfgLast.key.t = "str"
    /\ cfgLast.value.t = "int"
    /\ cfgLast.ret = "TypeError"
    /\ cfgCalls["danbooru"] = 1
    /\ EntryOf(cfg["danbooru"].headers, cfgLast.key) = CfgBytes("v")

\* ---------------------------------------------------------------- claims: bulk fetch
\* C4 (the claim as stated): during a bulk fetch with pool size M, never more
\* than M transport calls are outstanding.
C4_AtMostMOutstanding == Cardinality(Outstanding) <= MaxThreads

\* C6 (the claim as stated): once a Finder.cancel_fetch that cancelled the bulk
\* fetch has returned, no new transport call is started for any of its posts.
C6_NoTransportAfterCancel ==
    [][cancelDone => Outstanding' \subseteq Outstanding]_vars

\* The fetch of post p ran to its end: every image was requested and every slot
\* holds the content of its image unless the transport call for it failed.
FetchComplete(p) ==
    /\ recTask[p] = "done"
    /\ Len(dataOf[p]) = FetchImages[p]
    /\ \A i \in ImagesOf(p) :
          \/ refTask[p][i] = "ok" /\ dataOf[p][i] = ContentOf(i)
          \/ refTask[p][i] = "fail" /\ dataOf[p][i] = 0

\* No slot of post p holds content.
DataUnset(p) == \A i \in DOMAIN dataOf[p] : dataOf[p][i] = 0

CancelNoOp == cancelPc = "idle" /\ cancelCount' = cancelCount + 1

C7_FailureLeavesOnlyItsSlot ==
    \A p \in FetchPosts :
        (~fetchArgs.only /\ recTask[p] \in {"wait", "done"}) =>
            /\ Len(dataOf[p]) = FetchImages[p]
            /\ \A i \in ImagesOf(p) :
                  /\ refTask[p][i] = "ok" => dataOf[p][i] = ContentOf(i)
                  /\ refTask[p][i] # "ok" => dataOf[p][i] = 0
                  /\ refTask[p][i] \in {"skipped", "cancelled"} => postPool[p] = "shutdown"
            /\ (fetchArgs.block /\ recTask[p] = "done" /\ postPool[p] # "shutdown") =>
                  \A i \in ImagesOf(p) : refTask[p][i] \in {"ok", "fail"}

\* C7 witness: the fetch of post 1 is over, the call for image 1 failed and the
\* other images are stored at their own slots.
C7_Witness ==
    /\ ~fetchArgs.only
    /\ ~cancelDone
    /\ recTask[1] = "done"
    /\ refTask[1][1] = "fail"
    /\ \A i \in ImagesOf(1) \ {1} : refTask[1][i] = "ok" /\ dataOf[1][i] = ContentOf(i)
    /\ dataOf[1][1] = 0

ExportedFields ==
    {"post_id", "tags", "sources", "images", "authors", "source", "preview", "md5",
     "rating", "parent_id", "dimensions", "poster", "poster_id", "name", "filenames"}

\* C9 (the claim as stated): import_post applied to the data export_post wrote for
\* a constructed Post p (or to p.post_dict) yields a Post whose every exported
\* field equals p's.
C9_RoundTrip ==
    (importPc = "done" /\ imported.missing = {}) =>
        /\ imported.kind = "post"
        /\ \A f \in ExportedFields : imported.post[f] = post[f]

\* The order of the required fields the claim gives.
ClaimFieldOrder ==
    <<"post_id", "tags", "sources", "images", "authors", "source", "preview", "md5",
      "rating", "parent_id", "dimensions", "poster", "poster_id", "name">>

\* C17 (the claim as stated): import_post on data that lacks required fields
\* fails, builds no Post, and the error it reports names the first missing
\* field in the order of ClaimFieldOrder.
C17_ImportNamesFirstMissing ==
    (importPc = "done" /\ imported.missing # {}) =>
        /\ imported.kind = "none"
        /\ imported.post = NoPost
        /\ \E i \in DOMAIN ClaimFieldOrder :
              /\ ClaimFieldOrder[i] \in imported.missing
              /\ \A j \in 1..(i - 1) : ClaimFieldOrder[j] \notin imported.missing
              /\ imported.err = ClaimFieldOrder[i]

\* a equals the lower-case word w but for the case of its letters.
SameIgnoringCase(a, w) ==
    /\ Len(a) = Len(w)
    /\ \A i \in DOMAIN w : a[i] = w[i] \/ a[i] = UpperOf[w[i]]

ClaimGeneralWords ==
    {<<"s", "a", "f", "e">>, <<"s">>, <<"g">>, <<"g", "e", "n", "e", "r", "a", "l">>}
ClaimOtherWords ==
    {<<"s", "e", "n", "s", "i", "t", "i", "v", "e">>, <<"q">>, <<"e">>,
     <<"q", "u", "e", "s", "t", "i", "o", "n", "a", "b", "l", "e">>,
     <<"e", "x", "p", "l", "i", "c", "i", "t">>}

\* C10: the rating of a constructed Post is one of the five Rating members, never
\* null; "safe", "s", "g" and "general" in any letter case give GENERAL, None gives
\* UNKNOWN, and a string that matches no table entry gives UNKNOWN.
C10_RatingDerivation ==
    /\ postPc = "built" =>
          /\ post.rating.t = "enum" /\ post.rating.n \in 1..5
          /\ postArgs.rating.t = "none" => post.rating.n = UNKNOWN
          /\ postArgs.rating.t = "str" =>
                /\ (\E w \in ClaimGeneralWords : SameIgnoringCase(postArgs.rating.s, w))
                      => post.rating.n = GENERAL
                /\ (\A w \in ClaimGeneralWords \cup ClaimOtherWords :
                        ~SameIgnoringCase(postArgs.rating.s, w))
                      => post.rating.n = UNKNOWN
    /\ (importPc = "done" /\ imported.kind = "post") =>
          imported.post.rating.t = "enum" /\ imported.post.rating.n \in 1..5

\* C10 witness: a Post built with rating "SaFe" has rating GENERAL.
C10_Witness ==
    /\ postPc = "built"
    /\ postArgs.rating = PyStr(<<"S", "a", "F", "e">>)
    /\ post.rating = PyRating(GENERAL)

\* C11 (the claim as stated): a constructed Post has as many filenames and as
\* many dimensions as it has images.
C11_IndexAligned ==
    postPc = "built" =>
        /\ Len(post.filenames) = Len(post.images)
        /\ Len(post.dimensions.items) = Len(post.images)

\* ---------------------------------------------------------------- claims: deduplication
\* The filter as the claim describes it: a set of the hashes of the posts kept so
\* far; a post is dropped when one of its hashes is in the set, and otherwise it is
\* kept and all its hashes join the set.
RECURSIVE SeenSetFilter(_, _, _, _)
SeenSetFilter(posts, i, seen, kept) ==
    IF i > Len(posts) THEN kept
    ELSE IF posts[i].isList /\ Range(posts[i].items) \cap seen # {}
    THEN SeenSetFilter(posts, i + 1, seen, kept)
    ELSE SeenSetFilter(posts, i + 1, seen \cup Range(posts[i].items), Append(kept, i))

\* C8 (the claim as stated): filter_by_md5 returns, in input order, exactly the
\* posts none of whose hashes was seen in an earlier kept post, so that
\* [A(h1), B(h1), C(h2)] gives [A, C].
C8_FilterIsSeenSetPass ==
    (filterPc = "done" /\ filterRet.kind = "list") =>
        filterRet.kept = SeenSetFilter(filterIn, 1, {}, <<>>)

\* ---------------------------------------------------------------- claims: aggregator
RECURSIVE ConcatPosts(_, _)
\* The posts of the log entries from i on, in log order.
ConcatPosts(log, i) ==
    IF i > Len(log) THEN <<>> ELSE log[i].posts \o ConcatPosts(log, i + 1)

RECURSIVE SumLens(_, _)
SumLens(log, i) ==
    IF i > Len(log) THEN 0 ELSE Len(log[i].posts) + SumLens(log, i + 1)

\* The log's entries without those of adapters that raised.
RECURSIVE NotRaised(_, _)
NotRaised(log, i) ==
    IF i > Len(log) THEN <<>>
    ELSE IF log[i].state = "raised" THEN NotRaised(log, i + 1)
         ELSE <<log[i]>> \o NotRaised(log, i + 1)

UnscopedDone(op) == callPc = "done" /\ callOp = op /\ callClient = None
NoAdapterRaised == \A i \in DOMAIN callLog : callLog[i].state # "raised"
SomeAdapterRaised == \E i \in DOMAIN callLog : callLog[i].state = "raised"
\* Every registered adapter was queried exactly once, in registration order.
QueriedAllOnce ==
    /\ Len(callLog) = Len(clients)
    /\ \A i \in DOMAIN callLog :
          callLog[i].name = clients[i].name /\ callLog[i].inst = clients[i].inst

\* C1: an unscoped search_posts over N >= 2 adapters none of which raises queries
\* every registered adapter exactly once and returns the adapters' result lists
\* concatenated in registration order, each list in its own order; the merged
\* length is the sum of the individual lengths.
C1_SearchConcatenates ==
    (UnscopedDone("search_posts") /\ Len(clients) >= 2 /\ NoAdapterRaised) =>
        /\ QueriedAllOnce
        /\ callRet.kind = "list"
        /\ callRet.posts = ConcatPosts(callLog, 1)
        /\ Len(callRet.posts) = SumLens(callLog, 1)

\* C1 witness: three adapters answered 2, 0 and 1 posts and the search returned.
C1_Witness ==
    /\ UnscopedDone("search_posts")
    /\ Len(clients) = 3
    /\ callRet.kind = "list"
    /\ Len(callLog) = 3
    /\ Len(callLog[1].posts) = 2 /\ Len(callLog[2].posts) = 0
    /\ Len(callLog[3].posts) = 1
    /\ Len(callRet.posts) = 3

\* C2 (the claim as stated): when an adapter raises during an unscoped search over
\* N >= 2 adapters, no exception escapes, every other adapter is still queried and
\* the call returns the other adapters' results concatenated in registration order.
C2_RaiseIsIsolated ==
    (UnscopedDone("search_posts") /\ Len(clients) >= 2 /\ SomeAdapterRaised) =>
        /\ ~IsRaise(callRet)
        /\ QueriedAllOnce
        /\ callRet.posts = ConcatPosts(NotRaised(callLog, 1), 1)

\* C3: an unscoped get_post scans the adapters in registration order and returns
\* the answer of the first adapter k that does not answer None; no adapter after
\* k is queried; the result is None exactly when every adapter answered None.
C3_GetFirstMatch ==
    (UnscopedDone("get_post") /\ NoAdapterRaised) =>
        /\ Len(callLog) <= Len(clients)
        /\ \A i \in DOMAIN callLog :
              /\ callLog[i].name = clients[i].name /\ callLog[i].inst = clients[i].inst
              /\ i < Len(callLog) => callLog[i].posts = <<>>
        /\ callRet.kind \in {"post", "none"}
        /\ callRet.kind = "post" =>
              /\ callLog # <<>>
              /\ callRet.posts = callLog[Len(callLog)].posts
              /\ callRet.posts = <<GetAnswer(clients[Len(callLog)], callTags[1])>>
        /\ callRet.kind = "none" <=>
              /\ Len(callLog) = Len(clients)
              /\ \A i \in DOMAIN callLog : callLog[i].posts = <<>>

\* C3 witness: of three adapters the first answered None, the second a post, and
\* the third was not queried.
C3_Witness ==
    /\ UnscopedDone("get_post")
    /\ Len(clients) = 3
    /\ Len(callLog) = 2
    /\ callLog[1].posts = <<>>
    /\ callRet.kind = "post"
    /\ callRet.posts = <<GetAnswer(clients[2], callTags[1])>>

\* The start of the query to the next adapter of an unscoped search.
StartNextQuery == QueryIssue \/ AsyncStart

\* C14 (the claim as stated): in an unscoped search the query to adapter k+1 is
\* started without waiting for the query to adapter k to return: while a query
\* is outstanding and an adapter is still to be queried, its query can start.
C14_QueriesAreConcurrent ==
    (/\ callPc \in {"pending", "async"}
     /\ callClient = None
     /\ callOp \in AliasOps
     /\ Len(callLog) < Len(clients)
     /\ \E i \in DOMAIN callLog : callLog[i].state = "pending")
        => ENABLED StartNextQuery

\* C15 (the claim as stated): search_posts_async returns what search_posts
\* returns for the same adapters and answers: the adapters' lists concatenated
\* in registration order, whatever the order in which the queries complete.
C15_AsyncEqualsBlocking ==
    (UnscopedDone("search_posts_async") /\ NoAdapterRaised /\ callRet.kind = "list") =>
        /\ QueriedAllOnce
        /\ callRet.posts = ConcatPosts(callLog, 1)

\* ---------------------------------------------------------------- claims: download
\* The references of the call whose client.get returned a success status.
DlSucceeded ==
    {r \in {DlPath(p, i) : p \in DOMAIN dlTask, i \in 1..MaxDlImages} :
        /\ r[2] \in DOMAIN dlTask[r[1]].got
        /\ ~DlRejected(dlTask[r[1]].got[r[2]])}

\* C16 (the claim as stated): download_fast_async returns exactly the paths of
\* the references whose transport call succeeded, each once; a reference that
\* fails (status or network failure) keeps no other reference from being
\* downloaded and reported, so the call always returns such a list.
C16_PathsOfSucceededRefs ==
    (dlPc = "done" /\ dlIn.isList) =>
        /\ dlRet.kind = "list"
        /\ Len(dlRet.posts) = Cardinality(DlSucceeded)
        /\ {dlRet.posts[j] : j \in DOMAIN dlRet.posts} = DlSucceeded

\* ---------------------------------------------------------------- claims: adapter search
\* C19 (the claim as stated): search_posts(tags, limit, page) of an adapter
\* returns at most limit posts, whatever the query, "or" queries included.
C19_AtMostLimit ==
    (srPc = "done" /\ srRet.kind = "list") => Len(srRet.posts) <= srIn.limit

\* ---------------------------------------------------------------- claims: children
\* C21 (the claim as stated): when Finder.post_get_children(post) has returned
\* the list L, with a client or over every adapter, post.children holds the
\* posts of L in the same order.
C21_ChildrenAreReturned ==
    (callPc = "done" /\ callOp = "post_get_children" /\ callRet.kind = "list") =>
        postChildren = callRet.posts

\* ---------------------------------------------------------------- claims: registry
\* A step of an add_subfinder call that stored the adapter.
AddStored ==
    /\ AggIdle
    /\ callOp' = "add_subfinder"
    /\ callPc' = "done"
    /\ ~IsRaise(callRet')

C23_DataHasSlotPerImage ==
    \A p \in FetchPosts :
        dataOf[p] # <<>> =>
            /\ Len(dataOf[p]) = FetchImages[p]
            /\ \A i \in DOMAIN dataOf[p] : dataOf[p][i] \in {0, ContentOf(i)}

\* ---------------------------------------------------------------- claims: files
\* C24 (the claim as stated): in the download the bytes retrieved for image i
\* of a post are written to <directory>/<filenames[i]> and to no other file,
\* however the writer threads and the request loop interleave.
C24_BytesGoToOwnFile ==
    \A p \in DOMAIN dlTask :
        \A k \in DOMAIN dlTask[p].written :
            dlTask[p].written[k][1] = dlTask[p].written[k][2]

\* ---------------------------------------------------------------- claims: callers
\* C25 (the claim as stated): with threads that call cancel_fetch concurrently,
\* or one that cancels while another starts a fetch_data, no cancel_fetch call
\* raises, and when the calls have returned and the last call of every thread
\* was a cancel_fetch, the Finder holds no executor and no list of posts.
C25_CancelSafeFromAnyCaller ==
    /\ \A t \in Callers : ccOp[t] = "cancel" => ccErr[t] = ""
    /\ (\A t \in Callers : ccPc[t] = "idle" /\ ccOp[t] = "cancel") =>
           ccExecutor = 0 /\ ccPosts = "none"

\* ---------------------------------------------------------------- claims: fetched_data
\* C26 (the claim as stated): a post's fetched_data is true only when every
\* transport call of its fetch has finished: no reference of the post is still
\* queued or being retrieved while the flag reads true.
C26_FetchedMeansAllFinished ==
    \A p \in FetchPosts : fetchedData[p] =>
        /\ recTask[p] # "mainflight"
        /\ \A i \in ImagesOf(p) : refTask[p][i] \notin {"queued", "inflight"}

\* C27 (the claim as stated): a fetch_data that is invoked again on a post whose
\* data holds an unset slot does not return at its entry: it goes on to issue
\* the transport calls.
C27_RefetchRetriesUnset ==
    [][\A p \in FetchPosts :
          (/\ recTask[p] = "entry"
           /\ dataOf[p] # <<>>
           /\ \E i \in DOMAIN dataOf[p] : dataOf[p][i] = 0
           /\ recTask'[p] # "entry") => recTask'[p] # "done"]_vars

\* ---------------------------------------------------------------- claims: dropped posts
\* C28 (the claim as stated): filter_by_md5 drops a post only if one of its
\* hashes is a hash of an earlier post that was kept; so the first post of the
\* input is always kept.
C28_DroppedOnlyForKeptHash ==
    (filterPc = "done" /\ filterRet.kind = "list") =>
        \A i \in DOMAIN filterIn :
            i \notin Range(filterRet.kept) =>
                \E j \in Range(filterRet.kept) :
                    /\ j < i
                    /\ Range(filterIn[j].items) \cap Range(filterIn[i].items) # {}

\* ---------------------------------------------------------------- claims: retry loop
\* C29 (the claim as stated): every adapter search call eventually returns,
\* whatever the source answers, transport errors other than 410 on every
\* request included.
C29_SearchReturns == (rtPc = "request") ~> (rtPc = "returned")

\* ---------------------------------------------------------------- claims: alias table
\* C30: every registered adapter name has an entry in the alias table, and no
\* search, scoped or unscoped, ends with the KeyError of a missing entry.
C30_RegisteredHaveAliases ==
    /\ \A i \in DOMAIN clients : aliases[clients[i].name].present
    /\ (callOp \in AliasOps /\ callPc = "done") => callRet # Raise("KeyError")

\* C30 witness: an unscoped search over two registered adapters returned its
\* list, one of them has aliases set, and a name that was removed still has
\* its entry.
C30_Witness ==
    /\ callOp = "search_posts"
    /\ callClient = None
    /\ callPc = "done"
    /\ callRet.kind = "list"
    /\ Len(clients) = 2
    /\ \E i \in DOMAIN clients : aliases[clients[i].name].table # <<>>
    /\ \E n \in Names : aliases[n].present /\ ~HasSubfinder(n)

====
